---------------------------- MODULE Spec2Model ----------------------------
(***************************************************************************)
(* A model of ludwig/utils/hyperopt_utils.py: the grid functions, the      *)
(* three hyperopt strategies (grid, random, pySOT), the three executors    *)
(* (serial, parallel, fiber) with the GPU slot queue of the parallel one,  *)
(* and the ranking of results.                                             *)
(*                                                                         *)
(* Python dicts whose insertion order matters (the declared parameters,    *)
(* the search space) are sequences of <<name, value>> pairs; a sampled     *)
(* configuration (a dict read only by key) is a function name -> value.    *)
(* Lists are sequences.  An exception is a record field raised = TRUE.     *)
(***************************************************************************)
EXTENDS Integers, Sequences, FiniteSets, Bags, TLC

VARIABLES
    \* ---- strategy objects and the calls made on them
    parameters,          \* the declared parameters, in declaration order
    strategy,            \* the HyperoptStrategy object (self.hyperopt_strategy)
    call,                \* the last call made on the strategy and its outcome
    proposed,            \* history: every configuration sample() has returned
    updates,             \* history: every (parameters, metric_score) given to update()
    \* ---- executor.execute
    executor,            \* the executor object: type, num_workers, ...
    pc,                  \* position of execute in its code
    sampled_parameters,  \* the batch of the current loop iteration
    metric_scores,       \* serial / fiber: the scores of the current batch
    hyperopt_parameters, \* parallel: the list handed to pool.map
    batch_results,       \* parallel: what pool.map returned; fiber: stats_batch
    hyperopt_results,    \* the results accumulated over the run
    returned,            \* the value execute returns
    gpu_setup,           \* parallel: gpus, gpu_memory_limit, free memory per device
    queue,               \* parallel: self.queue, the GpuSlot queue (FIFO)
    tasks,               \* the tasks of the pool.map call in progress
    workers,             \* the pool's worker processes
    dispatched,          \* history: the parameters handed to each pool.map call
    model_definition     \* the caller's model_definition, an argument of execute

strategy_vars == <<parameters, strategy, call, proposed, updates>>
executor_vars == <<executor, pc, sampled_parameters, metric_scores,
                   hyperopt_parameters, batch_results, hyperopt_results,
                   returned, gpu_setup, queue, tasks, workers, dispatched,
                   model_definition>>
vars == <<parameters, strategy, call, proposed, updates,
          executor, pc, sampled_parameters, metric_scores,
          hyperopt_parameters, batch_results, hyperopt_results,
          returned, gpu_setup, queue, tasks, workers, dispatched,
          model_definition>>

-----------------------------------------------------------------------------
(* Bounds of the model *)

\* largest num_samples of a random or pySOT strategy
MaxSamples == 3
\* largest batch_size given to sample_batch
MaxBatch == 3
\* most update() calls made directly on a strategy
MaxUpdates == 1
\* most configurations of the strategy an executor runs
MaxTrials == 2
\* largest num_workers of a ParallelExecutor whose GPU setup is examined
MaxWorkers == 4
\* most parameters of a mapping given to substitute_parameters
MaxMapped == 2
\* the bounds of an int range are in -MaxInt..MaxInt
MaxInt == 3
\* largest steps argument of a grid function
MaxSteps == 4
\* a real number is a multiple of 1/RealUnit, written as its numerator
RealUnit == 2
\* the bounds of a real range are in 0..MaxReal/RealUnit
MaxReal == 5

-----------------------------------------------------------------------------
(* Generic helpers for Python lists *)

Range(s) == {s[i] : i \in 1..Len(s)}

Reverse(s) == [i \in 1..Len(s) |-> s[Len(s) + 1 - i]]

\* the bag of the elements of a list
RECURSIVE BagOfSeq(_)
BagOfSeq(s) ==
    IF s = <<>> THEN EmptyBag ELSE BagOfSeq(Tail(s)) (+) SetToBag({Head(s)})

RECURSIVE SeqProduct(_)
SeqProduct(s) == IF s = <<>> THEN 1 ELSE Head(s) * SeqProduct(Tail(s))

\* all sequences over S of length 0..n
SeqsUpTo(S, n) == UNION {[1..k -> S] : k \in 0..n}

Min(a, b) == IF a <= b THEN a ELSE b

\* a slip: the quotient is rounded to the nearest integer (b > 0)
int_div_round(a, b) ==
    IF b > 0 /\ a >= 0 THEN (2 * a + b) \div (2 * b) ELSE 0

\* int(a / b) for b # 0: the quotient cut towards zero
int_div(a, b) ==
    LET abs(x) == IF x < 0 THEN 0 - x ELSE x
        q == abs(a) \div abs(b)
    IN IF (a < 0) = (b < 0) THEN q ELSE 0 - q

-----------------------------------------------------------------------------
(* Hyperparameter names.  Python compares the names as strings; the model  *)
(* lists the names it uses in ascending string order and compares them by  *)
(* their position in that list.                                            *)

ParamNames == <<"combiner.fc_size", "training.batch_size", "training.lr">>

NameRank(n) == CHOOSE i \in 1..Len(ParamNames) : ParamNames[i] = n

\* sorted(names): Python's sorted on a list of distinct strings
RECURSIVE sorted_names(_)
sorted_names(names) ==
    IF names = <<>> THEN <<>>
    ELSE LET least == CHOOSE i \in 1..Len(names) :
                        \A j \in 1..Len(names) :
                            NameRank(names[i]) <= NameRank(names[j])
             rest  == [k \in 1..(Len(names) - 1) |->
                        IF k < least THEN names[k] ELSE names[k + 1]]
         IN <<names[least]>> \o sorted_names(rest)

-----------------------------------------------------------------------------
(* Grid functions *)

\* np.linspace(low, high, num=steps, dtype=int) for steps >= 0: steps evenly
\* spaced reals from low to high (the last one is high itself), each cut to
\* an integer.  The values are computed exactly, as rationals.  numpy from
\* 1.20 on takes the floor, as here; older versions cut towards zero, which
\* differs only at negative values that are not integers.
linspace_int(low, high, steps) ==
    IF steps = 1 THEN <<low>>
    ELSE [i \in 1..steps |->
            IF i = steps THEN high
            ELSE (low * (steps - 1) + (i - 1) * (high - low)) \div (steps - 1)]

\* a slip: the upper end is left out of the count
int_grid_function_exclusive(p) ==
    LET low   == p.range[1]
        high  == p.range[2]
        steps == IF "steps" \in DOMAIN p THEN p.steps ELSE high - low
    IN linspace_int(low, high, steps)

int_grid_function(p) ==
    LET low   == p.range[1]
        high  == p.range[2]
        steps == IF "steps" \in DOMAIN p THEN p.steps ELSE high - low + 1
    IN linspace_int(low, high, steps)

\* np.linspace(low, high, num=steps) for steps >= 0, low and high being
\* numerators over RealUnit: each sample is a fraction <<numerator, denominator>>
linspace_real(low, high, steps) ==
    IF steps = 1 THEN << <<low, RealUnit>> >>
    ELSE [i \in 1..steps |->
            <<low * (steps - 1) + (i - 1) * (high - low), RealUnit * (steps - 1)>>]

\* np.logspace(low, high, num=steps, base=base): base to the power of each
\* sample of linspace(low, high, steps)
logspace(low, high, steps, base) ==
    [i \in 1..steps |->
        [base |-> base, exponent |-> linspace_real(low, high, steps)[i]]]

\* np.geomspace(low, high, num=steps): low times (high / low) to the power of
\* (i - 1) / (steps - 1)
geomspace(low, high, steps) ==
    [i \in 1..steps |->
        [start |-> <<low, RealUnit>>, ratio |-> <<high, low>>,
         exponent |-> IF steps = 1 THEN <<0, 1>> ELSE <<i - 1, steps - 1>>]]

\* a slip: a space that is not known is taken as linear
float_grid_function_linear(p) ==
    LET steps == IF "steps" \in DOMAIN p THEN p.steps
                 ELSE int_div(p.range[2] - p.range[1] + RealUnit, RealUnit)
    IN IF steps < 0 THEN [raised |-> TRUE, exception |-> "ValueError"]
       ELSE [raised |-> FALSE,
             ret |-> linspace_real(p.range[1], p.range[2], steps)]

\* float_grid_function: [raised, ret].  range holds numerators over RealUnit;
\* steps and base are fields only when given (base, when given, is not 0).
float_grid_function(p) ==
    LET low   == p.range[1]
        high  == p.range[2]
        \* steps = int(high - low + 1)
        steps == IF "steps" \in DOMAIN p THEN p.steps
                 ELSE int_div(high - low + RealUnit, RealUnit)
    IN IF p.space = "linear"
       THEN IF steps < 0 THEN [raised |-> TRUE, exception |-> "ValueError"]
            ELSE [raised |-> FALSE, ret |-> linspace_real(low, high, steps)]
       ELSE IF p.space = "log"
       THEN IF steps < 0 THEN [raised |-> TRUE, exception |-> "ValueError"]
            ELSE IF "base" \in DOMAIN p
            THEN [raised |-> FALSE, ret |-> logspace(low, high, steps, p.base)]
            ELSE IF low = 0 \/ high = 0
            \* Geometric sequence cannot include zero
            THEN [raised |-> TRUE, exception |-> "ValueError"]
            ELSE [raised |-> FALSE, ret |-> geomspace(low, high, steps)]
       ELSE [raised |-> TRUE, exception |-> "ValueError"]

category_grid_function(p) == p.values

grid_functions_registry(type, p) ==
    CASE type = "int"      -> int_grid_function(p)
      [] type = "real"     -> float_grid_function(p).ret
      [] type = "category" -> category_grid_function(p)
      [] type = "cat"      -> category_grid_function(p)

-----------------------------------------------------------------------------
(* HyperoptStrategy and its three subclasses.  A strategy object is a      *)
(* record of its attributes; a method is an operator from the object (and  *)
(* the arguments) to [raised, ret, strategy]: whether it raised            *)
(* IndexError, what it returned, and the object afterwards.                *)

Goals == {"minimize", "maximize"}

\* the value of search_space[hp_name]
Lookup(pairs, name) ==
    LET i == CHOOSE k \in 1..Len(pairs) : pairs[k][1] = name IN pairs[i][2]

Names(pairs) == [i \in 1..Len(pairs) |-> pairs[i][1]]

\* itertools.product(*lists): tuples in order, the last list varying fastest
RECURSIVE product(_)
product(lists) ==
    IF lists = <<>> THEN << <<>> >>
    ELSE LET h    == Head(lists)
             rest == product(Tail(lists))
             n    == Len(rest)
         IN [k \in 1..(Len(h) * n) |->
                <<h[((k - 1) \div n) + 1]>> \o rest[((k - 1) % n) + 1]]

\* dict(zip(keys, values))
dict_zip(keys, values) ==
    [n \in Range(keys) |-> values[CHOOSE i \in 1..Len(keys) : keys[i] = n]]

\* GridStrategy._create_search_space: one grid per declared parameter
_create_search_space(params) ==
    [i \in 1..Len(params) |->
        <<params[i][1],
          grid_functions_registry(params[i][2].type, params[i][2])>>]

\* a slip: the names are taken in declaration order, not sorted
_get_grids_unsorted(search_space) ==
    LET hp_params == Names(search_space)
        prods == product([i \in 1..Len(hp_params) |->
                            Lookup(search_space, hp_params[i])])
    IN [k \in 1..Len(prods) |-> dict_zip(hp_params, prods[k])]

\* a slip: the grids are zipped, not multiplied
_get_grids_zipped(search_space) ==
    LET hp_params == sorted_names(Names(search_space))
        lens == {Len(Lookup(search_space, hp_params[i])) : i \in 1..Len(hp_params)}
        n == IF lens = {} THEN 1 ELSE CHOOSE m \in lens : \A l \in lens : m <= l
    IN [k \in 1..n |->
          [h \in Range(hp_params) |-> Lookup(search_space, h)[k]]]

\* GridStrategy._get_grids
_get_grids(search_space) ==
    LET hp_params == sorted_names(Names(search_space))
        prods == product([i \in 1..Len(hp_params) |->
                            Lookup(search_space, hp_params[i])])
    IN [k \in 1..Len(prods) |-> dict_zip(hp_params, prods[k])]

\* GridStrategy.__init__
GridStrategy(goal, params) ==
    [type |-> "grid", goal |-> goal, parameters |-> params,
     search_space |-> _create_search_space(params),
     samples |-> _get_grids(_create_search_space(params)),
     sampled_so_far |-> 0]

\* GridStrategy.__init__ as a call: [raised, strategy].  A grid function that
\* raises ends _create_search_space, and no object is constructed.
GridStrategy__init__(goal, params) ==
    IF \E i \in 1..Len(params) :
          /\ params[i][2].type = "real"
          /\ float_grid_function(params[i][2]).raised
    THEN [raised |-> TRUE, exception |-> "ValueError"]
    ELSE [raised |-> FALSE, strategy |-> GridStrategy(goal, params)]

\* a slip: one draw too few
_determine_samples_short(num_samples, draws) ==
    [i \in 1..(num_samples - 1) |-> draws[i]]

\* RandomStrategy._determine_samples: num_samples draws from the space.  The
\* draws (np.random.rand, unwarped by the JointSpace) are an input.
_determine_samples(num_samples, draws) ==
    [i \in 1..num_samples |-> draws[i]]

\* RandomStrategy.__init__
RandomStrategy(goal, params, num_samples, draws) ==
    [type |-> "random", goal |-> goal, parameters |-> params,
     num_samples |-> num_samples,
     samples |-> _determine_samples(num_samples, draws),
     sampled_so_far |-> 0]

\* PySOTStrategy.__init__.  The PySOTOptimizer is the number of suggestions
\* it was asked for and the observations it was given.
PySOTStrategy(goal, params, num_samples) ==
    [type |-> "pysot", goal |-> goal, parameters |-> params,
     num_samples |-> num_samples,
     pysot_optimizer |-> [suggested |-> 0, observed |-> <<>>],
     sampled_so_far |-> 0]

Raise(s) == [raised |-> TRUE, ret |-> <<>>, strategy |-> s]

Return(s, v) == [raised |-> FALSE, ret |-> v, strategy |-> s]

\* RandomStrategy.sample
RandomStrategy_sample(s) ==
    IF s.sampled_so_far >= Len(s.samples) THEN Raise(s)
    ELSE Return([s EXCEPT !.sampled_so_far = @ + 1],
                s.samples[s.sampled_so_far + 1])

\* GridStrategy.sample
GridStrategy_sample(s) ==
    IF s.sampled_so_far >= Len(s.samples) THEN Raise(s)
    ELSE Return([s EXCEPT !.sampled_so_far = @ + 1],
                s.samples[s.sampled_so_far + 1])

\* a slip: the optimizer is asked before the bound is tested
PySOTStrategy_sample_late_check(s, suggestion) ==
    LET t == [s EXCEPT !.pysot_optimizer.suggested = @ + 1] IN
    IF s.sampled_so_far >= s.num_samples THEN Raise(t)
    ELSE Return([t EXCEPT !.sampled_so_far = @ + 1], suggestion)

\* PySOTStrategy.sample; suggestion is what pysot_optimizer.suggest returns
PySOTStrategy_sample(s, suggestion) ==
    IF s.sampled_so_far >= s.num_samples THEN Raise(s)
    ELSE Return([s EXCEPT !.pysot_optimizer.suggested = @ + 1,
                          !.sampled_so_far = @ + 1],
                suggestion)

\* HyperoptStrategy.sample, dispatched on the class
sample(s, suggestion) ==
    CASE s.type = "grid"   -> GridStrategy_sample(s)
      [] s.type = "random" -> RandomStrategy_sample(s)
      [] s.type = "pysot"  -> PySOTStrategy_sample(s, suggestion)

\* the body of the for loop of sample_batch, from iteration i on
RECURSIVE sample_batch_loop(_, _, _, _, _)
sample_batch_loop(s, i, batch_size, samples, suggestions) ==
    IF i > batch_size THEN Return(s, samples)
    ELSE LET r == sample(s, suggestions[i]) IN
         IF r.raised
         THEN IF samples = <<>> THEN Raise(r.strategy)
              ELSE sample_batch_loop(r.strategy, i + 1, batch_size, samples,
                                     suggestions)
         ELSE sample_batch_loop(r.strategy, i + 1, batch_size,
                                Append(samples, r.ret), suggestions)

\* a slip: IndexError is always swallowed
RECURSIVE sample_batch_loop_swallow(_, _, _, _, _)
sample_batch_loop_swallow(s, i, batch_size, samples, suggestions) ==
    IF i > batch_size THEN Return(s, samples)
    ELSE LET r == sample(s, suggestions[i]) IN
         IF r.raised
         THEN sample_batch_loop_swallow(r.strategy, i + 1, batch_size, samples,
                                        suggestions)
         ELSE sample_batch_loop_swallow(r.strategy, i + 1, batch_size,
                                        Append(samples, r.ret), suggestions)

sample_batch_swallow(s, batch_size, suggestions) ==
    sample_batch_loop_swallow(s, 1, batch_size, <<>>, suggestions)

\* HyperoptStrategy.sample_batch
sample_batch(s, batch_size, suggestions) ==
    sample_batch_loop(s, 1, batch_size, <<>>, suggestions)

\* a slip: every observation is counted as a returned configuration
update_counts(s, sampled, metric_score) ==
    [s EXCEPT !.sampled_so_far = @ + 1]

\* GridStrategy.update, RandomStrategy.update: pass
\* PySOTStrategy.update: pysot_optimizer.observe
update(s, sampled, metric_score) ==
    IF s.type = "pysot"
    THEN [s EXCEPT !.pysot_optimizer.observed =
                        Append(@, <<sampled, metric_score>>)]
    ELSE s

\* HyperoptStrategy.update_batch
RECURSIVE update_batch(_, _)
update_batch(s, parameters_metric_tuples) ==
    IF parameters_metric_tuples = <<>> THEN s
    ELSE update_batch(update(s, Head(parameters_metric_tuples)[1],
                             Head(parameters_metric_tuples)[2]),
                      Tail(parameters_metric_tuples))

\* a slip: the bound is tested with > instead of >=
finished_exceeded(s) ==
    IF s.type = "pysot" THEN s.sampled_so_far > s.num_samples
    ELSE s.sampled_so_far > Len(s.samples)

\* finished() of the three classes
finished(s) ==
    IF s.type = "pysot" THEN s.sampled_so_far >= s.num_samples
    ELSE s.sampled_so_far >= Len(s.samples)

-----------------------------------------------------------------------------
(* HyperoptExecutor: metric extraction and ranking *)

\* a slip: a fixed metric is read, not self.metric
get_metric_score_accuracy(self, eval_stats) ==
    eval_stats[self.output_feature]["accuracy"]

\* HyperoptExecutor.get_metric_score
get_metric_score(self, eval_stats) == eval_stats[self.output_feature][self.metric]

\* list.sort on the key metric_score, ascending and stable: each element goes
\* behind the elements already placed whose score is not larger
RECURSIVE sorted_by_metric_score(_)
sorted_by_metric_score(l) ==
    IF l = <<>> THEN <<>>
    ELSE LET x    == l[Len(l)]
             rest == sorted_by_metric_score(SubSeq(l, 1, Len(l) - 1))
             keep == Cardinality({i \in 1..Len(rest) :
                                    rest[i].metric_score <= x.metric_score})
         IN SubSeq(rest, 1, keep) \o <<x>> \o SubSeq(rest, keep + 1, Len(rest))

\* a slip: the goal is ignored, the order is always ascending
sort_hyperopt_results_ascending(results, goal) ==
    sorted_by_metric_score(results)

\* a slip: for maximize the ascending list is reversed afterwards
sort_hyperopt_results_then_reverse(results, goal) ==
    IF goal = "maximize"
    THEN Reverse(sorted_by_metric_score(results))
    ELSE sorted_by_metric_score(results)

\* HyperoptExecutor.sort_hyperopt_results: sorted(..., reverse=goal == MAXIMIZE);
\* with reverse, Python reverses the list, sorts it and reverses the outcome
sort_hyperopt_results(results, goal) ==
    IF goal = "maximize"
    THEN Reverse(sorted_by_metric_score(Reverse(results)))
    ELSE sorted_by_metric_score(results)

-----------------------------------------------------------------------------
(* substitute_parameters.  A Python dict is a function from its keys; a    *)
(* value stored in a model definition is tagged, so that isinstance(value, *)
(* dict) can be asked of it: Scalar(v) is anything but a dict, Dict(items) *)
(* a dict.  A model definition is a record of its five parts; a feature is *)
(* a dict with the key "name".  The functions change their argument in     *)
(* place and the operators return the changed value.                       *)

Scalar(v) == [dict |-> FALSE, v |-> v]
Dict(items) == [dict |-> TRUE, items |-> items]

\* the parameter names substituted in the model, and name.split(".")
SubstitutedNameList ==
    <<"text.name", "text.type", "text.cell", "label.cell", "category.cell",
      "category", "training.lr", "training.optimizer.lr", "combiner.fc_size",
      "preprocessing.split">>

SubstitutedNames == Range(SubstitutedNameList)

split(name) ==
    CASE name = "text.name"             -> <<"text", "name">>
      [] name = "text.type"             -> <<"text", "type">>
      [] name = "text.cell"             -> <<"text", "cell">>
      [] name = "label.cell"            -> <<"label", "cell">>
      [] name = "category.cell"         -> <<"category", "cell">>
      [] name = "category"              -> <<"category">>
      [] name = "training.lr"           -> <<"training", "lr">>
      [] name = "training.batch_size"   -> <<"training", "batch_size">>
      [] name = "training.optimizer.lr" -> <<"training", "optimizer", "lr">>
      [] name = "combiner.fc_size"      -> <<"combiner", "fc_size">>
      [] name = "preprocessing.split"   -> <<"preprocessing", "split">>

\* the names of a mapping that begin with the given segments
WithPrefix(params, prefix) ==
    {n \in DOMAIN params :
        /\ Len(split(n)) >= Len(prefix)
        /\ SubSeq(split(n), 1, Len(prefix)) = prefix}

\* the segments of one name are the first segments of a longer name
begins(short, long) ==
    /\ Len(split(short)) < Len(split(long))
    /\ SubSeq(split(long), 1, Len(split(short))) = split(short)

\* get_parameters_dict raises: order is parameters.items() as a list of
\* names.  A name that comes after a name it extends finds the value of that
\* name where it needs a dict (curr_dict.get(name_elem, {}) returns it), and
\* the assignment into a value that is no dict raises TypeError.
get_parameters_dict_raises(order) ==
    \E i, j \in 1..Len(order) : i < j /\ begins(order[i], order[j])

\* get_parameters_dict, the dict built below the given segments, when it
\* does not raise: of a name and a longer name that extends it, the name
\* comes last and its value replaces the dict of the longer one.
RECURSIVE parameters_dict_below(_, _)
parameters_dict_below(params, prefix) ==
    LET longer == {n \in WithPrefix(params, prefix) : Len(split(n)) > Len(prefix)}
        keys   == {split(n)[Len(prefix) + 1] : n \in longer}
    IN [k \in keys |->
          LET path == Append(prefix, k) IN
          IF \E n \in longer : split(n) = path
          THEN Scalar(params[CHOOSE n \in longer : split(n) = path])
          ELSE Dict(parameters_dict_below(params, path))]

get_parameters_dict(params) == parameters_dict_below(params, <<>>)

\* a slip: the dict is replaced by the parameters found under its name
set_values_replace(model_dict, name, parameters_dict) ==
    IF name \notin DOMAIN parameters_dict
    THEN [raised |-> FALSE, ret |-> model_dict]
    ELSE LET params == parameters_dict[name] IN
         IF ~params.dict THEN [raised |-> TRUE]
         ELSE [raised |-> FALSE, ret |-> params.items]

\* a slip: a dict value is assigned like any other value, not merged
set_values_assign(model_dict, name, parameters_dict) ==
    IF name \notin DOMAIN parameters_dict
    THEN [raised |-> FALSE, ret |-> model_dict]
    ELSE LET params == parameters_dict[name] IN
         IF ~params.dict THEN [raised |-> TRUE]
         ELSE [raised |-> FALSE,
               ret |-> [key \in DOMAIN model_dict \cup DOMAIN params.items |->
                          IF key \in DOMAIN params.items
                          THEN params.items[key] ELSE model_dict[key]]]

\* set_values: [raised, ret], ret being model_dict after the call
set_values(model_dict, name, parameters_dict) ==
    IF name \notin DOMAIN parameters_dict
    THEN [raised |-> FALSE, ret |-> model_dict]
    ELSE LET params == parameters_dict[name] IN
         IF ~params.dict
         THEN [raised |-> TRUE]      \* AttributeError: no attribute 'items'
         ELSE LET keys == DOMAIN params.items
                  \* model_dict[key][sub_key] = sub_value raises KeyError or TypeError
                  fails(key) == /\ params.items[key].dict
                                /\ \/ key \notin DOMAIN model_dict
                                   \/ ~model_dict[key].dict
              IN IF \E key \in keys : fails(key)
                 THEN [raised |-> TRUE]
                 ELSE [raised |-> FALSE,
                       ret |-> [key \in DOMAIN model_dict \cup keys |->
                                  IF key \notin keys THEN model_dict[key]
                                  ELSE IF params.items[key].dict
                                  THEN Dict(params.items[key].items
                                              @@ model_dict[key].items)
                                  ELSE params.items[key]]]

\* a feature of a model definition
Feature(name, type) ==
    [k \in {"name", "type", "cell"} |->
        CASE k = "name" -> Scalar(name)
          [] k = "type" -> Scalar(type)
          [] k = "cell" -> Scalar("lstm")]

TextFeature  == Feature("text", "text")
LabelFeature == Feature("label", "category")

\* a slip: the features are looked up by their type
feature_type(feature) == feature["type"].v

\* input_feature["name"], output_feature["name"]
feature_name(feature) == feature["name"].v

\* the loops over the input and the output features
set_values_of_features(features, parameters_dict) ==
    [i \in 1..Len(features) |->
        set_values(features[i], feature_name(features[i]), parameters_dict)]

\* a variant that rejects a mapping with a name that addresses nothing
substitute_parameters_strict(model_def, params) ==
    LET parameters_dict == get_parameters_dict(params)
        addressed ==
            {"combiner", "training", "preprocessing"}
            \cup {feature_name(model_def.input_features[i]) :
                     i \in 1..Len(model_def.input_features)}
            \cup {feature_name(model_def.output_features[i]) :
                     i \in 1..Len(model_def.output_features)}
        ins  == set_values_of_features(model_def.input_features,
                                       parameters_dict)
        outs == set_values_of_features(model_def.output_features,
                                       parameters_dict)
        comb == set_values(model_def.combiner, "combiner", parameters_dict)
        trai == set_values(model_def.training, "training", parameters_dict)
        prep == set_values(model_def.preprocessing, "preprocessing",
                           parameters_dict)
    IN IF \/ \E i \in 1..Len(ins) : ins[i].raised
          \/ \E i \in 1..Len(outs) : outs[i].raised
          \/ comb.raised \/ trai.raised \/ prep.raised
          \/ ~(DOMAIN parameters_dict \subseteq addressed)
       THEN [raised |-> TRUE]
       ELSE [raised |-> FALSE,
             ret |-> [input_features  |-> [i \in 1..Len(ins) |-> ins[i].ret],
                      output_features |-> [i \in 1..Len(outs) |-> outs[i].ret],
                      combiner        |-> comb.ret,
                      training        |-> trai.ret,
                      preprocessing   |-> prep.ret]]

\* substitute_parameters on a mapping from which get_parameters_dict builds
\* its dict: [raised, ret], ret being the model definition after the call
substitute_parameters(model_def, params) ==
    LET parameters_dict == get_parameters_dict(params)
        ins  == set_values_of_features(model_def.input_features,
                                       parameters_dict)
        outs == set_values_of_features(model_def.output_features,
                                       parameters_dict)
        comb == set_values(model_def.combiner, "combiner", parameters_dict)
        trai == set_values(model_def.training, "training", parameters_dict)
        prep == set_values(model_def.preprocessing, "preprocessing",
                           parameters_dict)
    IN IF \/ \E i \in 1..Len(ins) : ins[i].raised
          \/ \E i \in 1..Len(outs) : outs[i].raised
          \/ comb.raised \/ trai.raised \/ prep.raised
       THEN [raised |-> TRUE]
       ELSE [raised |-> FALSE,
             ret |-> [input_features  |-> [i \in 1..Len(ins) |-> ins[i].ret],
                      output_features |-> [i \in 1..Len(outs) |-> outs[i].ret],
                      combiner        |-> comb.ret,
                      training        |-> trai.ret,
                      preprocessing   |-> prep.ret]]

\* substitute_parameters on a mapping whose items come in the given order:
\* get_parameters_dict is called first and its exception ends the call
substitute_parameters_ordered(model_def, params, order) ==
    IF get_parameters_dict_raises(order) THEN [raised |-> TRUE]
    ELSE substitute_parameters(model_def, params)

-----------------------------------------------------------------------------
(* get_available_gpu_memory.  The output of the nvidia-smi call is the     *)
(* list of the pieces between its newlines: the header line, one line per  *)
(* device and the empty piece behind the last newline.  Of a line the      *)
(* model keeps what int(x.split()[0]) makes of it: first = <<n>> when the  *)
(* first word is the numeral n, first = <<>> when int() or [0] raises.     *)

HeaderLine == [first |-> <<>>]
EmptyLine  == [first |-> <<>>]
MemoryLine(n) == [first |-> <<n>>]
\* a device line without a number, such as "[N/A]"
UnknownLine == [first |-> <<>>]

\* what nvidia-smi --query-gpu=memory.free --format=csv prints for devices
\* with the given free memory
nvidia_smi_output(free) ==
    <<HeaderLine>> \o [i \in 1..Len(free) |-> MemoryLine(free[i])] \o <<EmptyLine>>

\* sp.check_output(COMMAND.split()) when the tool runs
check_output(lines) == [raised |-> FALSE, output |-> lines]

\* sp.check_output(COMMAND.split()) when it raises
check_output_raises(exception) == [raised |-> TRUE, exception |-> exception]

\* Python's l[a:] and l[:-1] on a list
SliceFrom(l, a) == SubSeq(l, a + 1, Len(l))
SliceButLast(l) == SubSeq(l, 1, Len(l) - 1)

\* get_available_gpu_memory: an exception inside the try block is printed
\* and dropped; the return statement then reads memory_free_values, which
\* was never assigned, and raises UnboundLocalError
get_available_gpu_memory(tool) ==
    IF tool.raised
    THEN [raised |-> TRUE, exception |-> "UnboundLocalError",
          printed |-> <<tool.exception>>]
    ELSE LET memory_free_info == SliceFrom(SliceButLast(tool.output), 1) IN
         IF \E i \in 1..Len(memory_free_info) : memory_free_info[i].first = <<>>
         THEN [raised |-> TRUE, exception |-> "UnboundLocalError",
               printed |-> <<"ValueError">>]
         ELSE [raised |-> FALSE,
               ret |-> [i \in 1..Len(memory_free_info) |->
                           memory_free_info[i].first[1]]]

-----------------------------------------------------------------------------
(* ParallelExecutor.execute: the GPU slots built before the loop.  Memory   *)
(* is in MB.  The code computes in floats; the model computes the same      *)
(* quantities exactly, as fractions over the denominator 100 * num_workers. *)

\* ParallelExecutor.epsilon, in hundredths
epsilon_hundredths == 1
epsilon_memory == 100
TF_REQUIRED_MEMORY_PER_WORKER == 100

\* the denominator of the fractions
Den(num_workers) == 100 * num_workers

\* new_gpu_memory_limit of one device when num_gpus < num_workers, as a
\* numerator over Den(num_workers)
new_gpu_memory_limit(setup, num_workers, gpu_id) ==
    LET num_gpus  == Len(setup.gpus)
        D         == Den(num_workers)
        available == setup.available_gpu_memory_list[gpu_id + 1]
        \* fraction = num_gpus / num_workers - epsilon; required = fraction * available
        required  == (100 * num_gpus - epsilon_hundredths * num_workers) * available
    IN IF setup.gpu_memory_limit = <<>>
       THEN required - TF_REQUIRED_MEMORY_PER_WORKER * num_workers * D
       ELSE LET given   == setup.gpu_memory_limit[1]
                clamped == IF given > available
                           THEN (available - epsilon_memory) * D
                           ELSE given * D
            IN IF required < clamped
               THEN IF 2 * required > available * D
                    THEN IF available * D # clamped
                         THEN (available - epsilon_memory) * D
                         ELSE clamped
                    ELSE required
               ELSE clamped

\* gpu_ids_meta[gpu_id]: [raised, gpu_memory_limit, process_per_gpu]
gpu_ids_meta(setup, num_workers, gpu_id) ==
    IF Len(setup.gpus) < num_workers
    THEN IF gpu_id + 1 > Len(setup.available_gpu_memory_list)
         THEN [raised |-> TRUE]      \* IndexError: list index out of range
         ELSE LET limit == new_gpu_memory_limit(setup, num_workers, gpu_id)
                  available == setup.available_gpu_memory_list[gpu_id + 1]
              IN IF limit = 0
                 THEN [raised |-> TRUE]      \* ZeroDivisionError
                 ELSE [raised |-> FALSE,
                       gpu_memory_limit |-> <<limit, Den(num_workers)>>,
                       process_per_gpu |->
                           int_div(available * Den(num_workers), limit)]
    ELSE [raised |-> FALSE,
          gpu_memory_limit |-> setup.gpu_memory_limit,
          process_per_gpu |-> 1]

\* the slots put for one device: process_per_gpu of them (none when negative)
slots_of(setup, num_workers, gpu_id) ==
    LET meta == gpu_ids_meta(setup, num_workers, gpu_id) IN
    [i \in 1..meta.process_per_gpu |->
        [gpu_id |-> gpu_id, gpu_memory_limit |-> meta.gpu_memory_limit]]

\* the queue after the loop over gpu_ids, from the k-th id on
RECURSIVE initial_queue(_, _, _)
initial_queue(setup, num_workers, k) ==
    IF k > Len(setup.gpus) THEN <<>>
    ELSE slots_of(setup, num_workers, setup.gpus[k])
            \o initial_queue(setup, num_workers, k + 1)

\* the setup ends with an exception: get_available_gpu_memory() raised, or
\* the loop over gpu_ids did
setup_raises(setup, num_workers) ==
    \/ setup.query_raised
    \/ \E k \in 1..Len(setup.gpus) :
          gpu_ids_meta(setup, num_workers, setup.gpus[k]).raised

\* a slip: the slot goes back only when the trial returns
release_on_success(q, slot, raised) ==
    IF raised THEN q ELSE Append(q, slot)

\* _train_and_eval_model_gpu, the finally clause: self.queue.put(gpu_id_meta)
release(q, slot, raised) == Append(q, slot)

-----------------------------------------------------------------------------
(* The strategies the model builds, and the calls made on them *)

\* the metric scores a trial can produce
Scores == {1, 2}

\* the parameter declarations a grid strategy is built from
GridParamSpecs ==
    {[type |-> "int", range |-> <<0, 2>>],
     [type |-> "int", range |-> <<0, 2>>, steps |-> 2],
     [type |-> "category", values |-> <<10, 10>>],
     [type |-> "category", values |-> <<>>]}

\* the parameter declarations a random or pySOT strategy is built from
SampledParamSpecs ==
    {[type |-> "category", values |-> <<16, 32>>]}

\* declarations of at most two parameters with distinct names, in any order
Declarations(specs) ==
    {<<>>}
    \cup {<< <<n, p>> >> : n \in Range(ParamNames), p \in specs}
    \cup {d \in {<< <<n, p>>, <<m, q>> >> :
                    n \in Range(ParamNames), m \in Range(ParamNames),
                    p \in specs, q \in specs} : d[1][1] # d[2][1]}

\* the values a parameter can take
Domain(p) ==
    IF p.type = "int" THEN p.range[1]..p.range[2] ELSE Range(p.values)

\* the configurations of a declared space (what a JointSpace can produce)
Space(params) ==
    {c \in [Range(Names(params)) ->
                UNION {Domain(params[i][2]) : i \in 1..Len(params)}] :
        \A i \in 1..Len(params) : c[params[i][1]] \in Domain(params[i][2])}

\* what pysot_optimizer.suggest may return; the other classes ask no optimizer
Suggestions(s) ==
    IF s.type = "pysot" THEN Space(s.parameters) ELSE {<<>>}

\* the configurations update() is called with: the latest proposal, or any
\* configuration when the pySOT optimizer has proposed nothing yet
UpdateArgs(s) ==
    IF proposed # <<>> THEN {proposed[Len(proposed)]}
    ELSE IF s.type = "pysot" THEN Space(s.parameters) ELSE {}

\* the update() calls the strategy has received; the model stops at MaxUpdates
\* where they change its state
Observed(s) ==
    IF s.type = "pysot" THEN Len(s.pysot_optimizer.observed) ELSE 0

NoCall(s) ==
    [op |-> "init", raised |-> FALSE, ret |-> <<>>, before |-> s,
     batch_size |-> 0]

SampledDeclarations ==
    {<< <<ParamNames[2], p>> >> : p \in SampledParamSpecs}

RandomStrategies(g, ps, n) ==
    {RandomStrategy(g, ps, n, d) : d \in [1..n -> Space(ps)]}

\* the strategy objects build_hyperopt_strategy can construct
Strategies ==
    {GridStrategy(g, ps) : g \in Goals, ps \in Declarations(GridParamSpecs)}
    \cup UNION {RandomStrategies(x[1], x[2], x[3]) :
                  x \in Goals \X SampledDeclarations \X (0..MaxSamples)}
    \cup {PySOTStrategy(g, ps, n) :
            g \in Goals, ps \in SampledDeclarations, n \in 0..MaxSamples}

ExecutorIdle ==
    /\ executor = [type |-> "none"]
    /\ pc = "idle"
    /\ sampled_parameters = <<>>
    /\ metric_scores = <<>>
    /\ hyperopt_parameters = <<>>
    /\ batch_results = <<>>
    /\ hyperopt_results = <<>>
    /\ returned = <<>>
    /\ gpu_setup = [gpus |-> <<>>]
    /\ queue = <<>>
    /\ tasks = <<>>
    /\ workers = <<>>
    /\ dispatched = <<>>
    /\ model_definition = <<>>

StrategyInit ==
    /\ strategy \in Strategies
    /\ parameters = strategy.parameters
    /\ call = NoCall(strategy)
    /\ proposed = <<>>
    /\ updates = <<>>
    /\ ExecutorIdle

\* a call of strategy.sample()
Sample ==
    \E suggestion \in Suggestions(strategy) :
        LET r == sample(strategy, suggestion) IN
        /\ strategy' = r.strategy
        /\ call' = [op |-> "sample", raised |-> r.raised, ret |-> r.ret,
                    before |-> strategy, batch_size |-> 1]
        /\ proposed' = IF r.raised THEN proposed ELSE Append(proposed, r.ret)
        /\ UNCHANGED <<parameters, updates>>
        /\ UNCHANGED executor_vars

\* a call of strategy.sample_batch(batch_size)
SampleBatch ==
    \E batch_size \in 0..MaxBatch :
      \E suggestions \in [1..batch_size -> Suggestions(strategy)] :
        LET r == sample_batch(strategy, batch_size, suggestions) IN
        /\ strategy' = r.strategy
        /\ call' = [op |-> "sample_batch", raised |-> r.raised, ret |-> r.ret,
                    before |-> strategy, batch_size |-> batch_size]
        /\ proposed' = IF r.raised THEN proposed ELSE proposed \o r.ret
        /\ UNCHANGED <<parameters, updates>>
        /\ UNCHANGED executor_vars

\* a call of strategy.update(sampled_parameters, metric_score)
Update ==
    /\ Observed(strategy) < MaxUpdates
    /\ \E c \in UpdateArgs(strategy), m \in Scores :
        /\ strategy' = update(strategy, c, m)
        /\ call' = [op |-> "update", raised |-> FALSE, ret |-> <<>>,
                    before |-> strategy, batch_size |-> 0]
        /\ UNCHANGED <<parameters, proposed, updates>>
        /\ UNCHANGED executor_vars

\* a call of strategy.update_batch(parameters_metric_tuples)
UpdateBatch ==
    \E k \in 0..(MaxUpdates - Observed(strategy)) :
      \E tuples \in [1..k -> UpdateArgs(strategy) \X Scores] :
        /\ strategy' = update_batch(strategy, tuples)
        /\ call' = [op |-> "update_batch", raised |-> FALSE, ret |-> <<>>,
                    before |-> strategy, batch_size |-> k]
        /\ UNCHANGED <<parameters, proposed, updates>>
        /\ UNCHANGED executor_vars

\* a call of strategy.finished()
Finished ==
    /\ call' = [op |-> "finished", raised |-> FALSE,
                ret |-> <<finished(strategy)>>,
                before |-> strategy, batch_size |-> 0]
    /\ UNCHANGED <<parameters, strategy, proposed, updates>>
    /\ UNCHANGED executor_vars

StrategyNext ==
    \/ Sample
    \/ SampleBatch
    \/ Update
    \/ UpdateBatch
    \/ Finished

\* any sequence of calls on any strategy
SpecStrategy == StrategyInit /\ [][StrategyNext]_vars

-----------------------------------------------------------------------------
(* Properties of the strategies *)

\* how many configurations a strategy can still propose
Remaining(s) ==
    IF s.type = "pysot" THEN s.num_samples - s.sampled_so_far
    ELSE Len(s.samples) - s.sampled_so_far

\* C5: sample_batch(b), b >= 1, on a strategy with r remaining configurations
\* raises IndexError when r = 0; otherwise it returns min(b, r) configurations
\* (at least one), the ones successive sample() calls would return, in that
\* order, and leaves r - min(b, r), so that finished() holds when b >= r.
C5_SampleBatch ==
    (call.op = "sample_batch" /\ call.batch_size >= 1) =>
        LET r == Remaining(call.before)
            b == call.batch_size
            k == call.before.sampled_so_far
        IN IF r = 0 THEN call.raised
           ELSE /\ ~call.raised
                /\ Len(call.ret) = Min(b, r)
                /\ Len(call.ret) >= 1
                /\ call.before.type # "pysot" =>
                      \A i \in 1..Len(call.ret) :
                          call.ret[i] = call.before.samples[k + i]
                /\ call.before.type = "pysot" =>
                      strategy.pysot_optimizer.suggested =
                          call.before.pysot_optimizer.suggested + Len(call.ret)
                /\ Remaining(strategy) = r - Min(b, r)
                /\ (b >= r => finished(strategy))

\* sample_batch(3) with 2 configurations left returned both and finished
C5_Witness ==
    /\ call.op = "sample_batch"
    /\ call.batch_size = 3
    /\ Remaining(call.before) = 2
    /\ Len(call.ret) = 2
    /\ finished(strategy)

\* the names of a set, in ascending order
Ascending(S) == SelectSeq(ParamNames, LAMBDA n : n \in S)

GridLengths(s) ==
    [i \in 1..Len(s.search_space) |-> Len(s.search_space[i][2])]

\* C6: a GridStrategy holds as many configurations as the product of the
\* grid lengths of its parameters, each giving every parameter a value of its
\* grid; sample() succeeds exactly that many times and fails after that.
C6_GridSize ==
    strategy.type = "grid" =>
        /\ Len(strategy.samples) = SeqProduct(GridLengths(strategy))
        /\ \A k \in 1..Len(strategy.samples) :
              /\ DOMAIN strategy.samples[k] = Range(Names(parameters))
              /\ \A i \in 1..Len(parameters) :
                    strategy.samples[k][parameters[i][1]]
                        \in Range(strategy.search_space[i][2])
        /\ Len(proposed) = strategy.sampled_so_far
        /\ Len(proposed) <= Len(strategy.samples)
        /\ call.op = "sample" =>
              (call.raised <=>
                  call.before.sampled_so_far = Len(strategy.samples))

\* a grid of two parameters and at least four configurations is exhausted and
\* the next sample() has failed
C6_Witness ==
    /\ strategy.type = "grid"
    /\ Len(parameters) = 2
    /\ Len(strategy.samples) >= 4
    /\ Len(proposed) = Len(strategy.samples)
    /\ call.op = "sample"
    /\ call.raised

\* the value the k-th configuration of the cross-product gives to the j-th
\* name in ascending order: the names after it vary faster
CrossProductValue(s, k, j) ==
    LET names  == Ascending(Range(Names(s.search_space)))
        grid(i) == Lookup(s.search_space, names[i])
        faster == SeqProduct([i \in 1..(Len(names) - j) |-> Len(grid(j + i))])
    IN grid(j)[(((k - 1) \div faster) % Len(grid(j))) + 1]

\* C7: successive sample() calls of a GridStrategy return the cross-product
\* with the names taken in ascending order, the last name varying fastest,
\* whatever the order of declaration: the strategy built from the same
\* declarations in the opposite order returns the same sequence.
C7_GridOrder ==
    strategy.type = "grid" =>
        LET names == Ascending(Range(Names(parameters))) IN
        /\ \A k \in 1..Len(strategy.samples) : \A j \in 1..Len(names) :
              strategy.samples[k][names[j]] = CrossProductValue(strategy, k, j)
        /\ \A k \in 1..Len(proposed) : proposed[k] = strategy.samples[k]
        /\ GridStrategy(strategy.goal, Reverse(parameters)).samples
              = strategy.samples

\* two parameters with different grids, declared in descending name order,
\* and every configuration has been returned
C7_Witness ==
    /\ strategy.type = "grid"
    /\ Len(parameters) = 2
    /\ NameRank(parameters[1][1]) > NameRank(parameters[2][1])
    /\ strategy.search_space[1][2] # strategy.search_space[2][2]
    /\ Len(strategy.samples) >= 4
    /\ Len(proposed) = Len(strategy.samples)

\* C8: a RandomStrategy with num_samples = n holds n draws; sample() succeeds
\* exactly n times, each time returning the next draw, and fails after that;
\* finished() holds exactly when the n draws are consumed.
C8_RandomCount ==
    strategy.type = "random" =>
        LET n == strategy.num_samples IN
        /\ Len(strategy.samples) = n
        /\ Len(proposed) = strategy.sampled_so_far
        /\ Len(proposed) <= n
        /\ \A k \in 1..Len(proposed) : proposed[k] = strategy.samples[k]
        /\ call.op = "sample" =>
              /\ call.raised <=> call.before.sampled_so_far = n
              /\ ~call.raised =>
                    call.ret = strategy.samples[call.before.sampled_so_far + 1]
        /\ finished(strategy) <=> Len(proposed) = n
        /\ call.op = "finished" => (call.ret[1] <=> Len(proposed) = n)

\* the sample() call after the third of three draws has failed
C8_Witness ==
    /\ strategy.type = "random"
    /\ strategy.num_samples = 3
    /\ Len(proposed) = 3
    /\ call.op = "sample"
    /\ call.raised

\* C9: PySOTStrategy.sample() succeeds exactly num_samples times whatever
\* updates were made; after that it raises IndexError without asking the
\* optimizer for a suggestion.
C9_PySOTCount ==
    strategy.type = "pysot" =>
        /\ Len(proposed) = strategy.sampled_so_far
        /\ Len(proposed) <= strategy.num_samples
        /\ strategy.pysot_optimizer.suggested = Len(proposed)
        /\ call.op = "sample" =>
              /\ call.raised <=>
                    call.before.sampled_so_far = strategy.num_samples
              /\ call.raised =>
                    strategy.pysot_optimizer.suggested =
                        call.before.pysot_optimizer.suggested

\* sample() has failed after two proposals and one observation
C9_Witness ==
    /\ strategy.type = "pysot"
    /\ strategy.num_samples = 2
    /\ Len(proposed) = 2
    /\ Len(strategy.pysot_optimizer.observed) = 1
    /\ call.op = "sample"
    /\ call.raised

-----------------------------------------------------------------------------
(* The executors.  execute() is a sequence of steps of the calling process *)
(* (pc) and, for the pool executors, of the worker processes.              *)
(*                                                                         *)
(* train_and_eval_on_split is the training pipeline (full_train, predict,   *)
(* postprocess): the model lets a trial either return (train_stats,        *)
(* eval_stats) with some metric score, or raise.  The source file ends at  *)
(* the function's last save_test_statistics call, with no return statement *)
(* in sight; the callers unpack a pair, so a call that does not hand one   *)
(* back is among the trials that raise.                                    *)
(*                                                                         *)
(* multiprocessing's Pool.map hands the tasks out in chunks of             *)
(* ceil(len / (4 * num_workers)) tasks: one task per chunk for the lists   *)
(* of this model.  It returns, or re-raises the first exception, once      *)
(* every task is over.  fiber.Pool has the same interface.                 *)

\* the strategies an executor is run with: at most MaxTrials configurations
ExecutorStrategies ==
    {GridStrategy(g, << <<ParamNames[2], [type |-> "category", values |-> v]>> >>) :
        g \in Goals, v \in SeqsUpTo({16, 32}, MaxTrials)}
    \cup UNION {RandomStrategies(x[1], x[2], x[3]) :
                  x \in Goals \X SampledDeclarations \X (0..MaxTrials)}
    \cup {PySOTStrategy(g, ps, n) :
            g \in Goals, ps \in SampledDeclarations, n \in 0..MaxTrials}

\* the executor objects: build_hyperopt_executor with the default output
\* feature and metric
Executor(type, num_workers) ==
    [type |-> type, num_workers |-> num_workers,
     output_feature |-> "combined", metric |-> "loss"]

\* the arguments and surroundings of a ParallelExecutor run: gpus (after
\* get_available_gpus(); <<>> when there is none), gpu_memory_limit (<<>> for
\* None) and the outcome of get_available_gpu_memory() given what the
\* nvidia-smi call does
GpuSetupWith(gpus, gpu_memory_limit, tool) ==
    LET query == get_available_gpu_memory(tool) IN
    [gpus |-> gpus, gpu_memory_limit |-> gpu_memory_limit,
     query_raised |-> query.raised,
     available_gpu_memory_list |-> IF query.raised THEN <<>> ELSE query.ret]

\* a machine whose devices have the given free memory
GpuSetup(gpus, gpu_memory_limit, available) ==
    GpuSetupWith(gpus, gpu_memory_limit,
                 check_output(nvidia_smi_output(available)))

NoGpus == GpuSetup(<<>>, <<>>, <<>>)

\* the runs of ParallelExecutor.execute: <<num_workers, setup>>
ParallelRuns ==
    {<<2, NoGpus>>,
     <<1, GpuSetup(<<0>>, <<>>, <<1000>>)>>,
     <<2, GpuSetup(<<0, 1>>, <<500>>, <<1000, 1000>>)>>,
     <<2, GpuSetup(<<0>>, <<>>, <<1000>>)>>,
     <<2, GpuSetup(<<0>>, <<>>, <<400>>)>>,
     <<2, GpuSetup(<<0>>, <<2000>>, <<1000>>)>>,
     <<2, GpuSetup(<<1>>, <<>>, <<1000>>)>>}

\* what one call of train_and_eval_on_split does
TrialOutcomes ==
    {[raised |-> FALSE, score |-> m] : m \in Scores} \cup {[raised |-> TRUE]}

\* (train_stats, eval_stats) of a trial that returns
train_and_eval_on_split(hyperopt_dict, outcome) ==
    [train_stats |-> [trial |-> hyperopt_dict.parameters,
                      model_definition |-> hyperopt_dict.model_definition],
     eval_stats |-> [combined |-> [loss |-> outcome.score, accuracy |-> 0]]]

\* the dict appended to hyperopt_results
TrialResult(self, params, stats) ==
    [parameters |-> params,
     metric_score |-> get_metric_score(self, stats.eval_stats),
     training_stats |-> stats.train_stats,
     eval_stats |-> stats.eval_stats]

\* the model_definition an executor is run with
ExecutorModelDefinition ==
    [input_features  |-> <<TextFeature>>,
     output_features |-> <<LabelFeature>>,
     combiner        |-> [k \in {"type"} |-> Scalar("concat")],
     training        |-> [k \in {"batch_size", "epochs"} |-> Scalar(128)],
     preprocessing   |-> <<>>]

IdleWorker == [stage |-> "idle", task |-> 0, slot |-> <<>>]

Pool(num_workers) == [w \in 1..num_workers |-> IdleWorker]

GpuMode == executor.type = "parallel" /\ gpu_setup.gpus # <<>>

ExecutorInit ==
    /\ strategy \in ExecutorStrategies
    /\ parameters = strategy.parameters
    /\ call = NoCall(strategy)
    /\ proposed = <<>>
    /\ updates = <<>>
    /\ \/ /\ executor = Executor("serial", 1)
          /\ gpu_setup = NoGpus
          /\ workers = <<>>
       \/ /\ executor = Executor("fiber", 2)
          /\ gpu_setup = NoGpus
          /\ workers = Pool(2)
       \/ /\ \E run \in ParallelRuns :
                /\ executor = Executor("parallel", run[1])
                /\ gpu_setup = run[2]
          /\ workers = <<>>
    /\ pc = "start"
    /\ sampled_parameters = <<>>
    /\ metric_scores = <<>>
    /\ hyperopt_parameters = <<>>
    /\ batch_results = <<>>
    /\ hyperopt_results = <<>>
    /\ returned = <<>>
    /\ queue = <<>>
    /\ tasks = <<>>
    /\ dispatched = <<>>
    /\ model_definition = ExecutorModelDefinition

\* execute, up to the while loop.  ParallelExecutor builds the slot queue
\* and the pool; an exception in the setup ends execute.
ExecStart ==
    /\ pc = "start"
    /\ IF executor.type = "parallel"
       THEN IF gpu_setup.gpus # <<>>
               /\ setup_raises(gpu_setup, executor.num_workers)
            THEN /\ pc' = "failed"
                 /\ UNCHANGED <<queue, workers>>
            ELSE /\ queue' = IF gpu_setup.gpus # <<>>
                             THEN initial_queue(gpu_setup, executor.num_workers, 1)
                             ELSE <<>>
                 /\ workers' = Pool(executor.num_workers)
                 /\ pc' = "loop"
       ELSE /\ pc' = "loop"
            /\ UNCHANGED <<queue, workers>>
    /\ UNCHANGED <<sampled_parameters, metric_scores, hyperopt_parameters,
                   batch_results, hyperopt_results, returned, gpu_setup,
                   tasks, dispatched, executor, model_definition>>
    /\ UNCHANGED strategy_vars

\* the value of the local variable gpu_memory_limit after the setup: the
\* loop that fills the queue assigns it the limit of each device in turn
gpu_memory_limit_after_setup ==
    IF GpuMode
    THEN gpu_ids_meta(gpu_setup, executor.num_workers,
                      gpu_setup.gpus[Len(gpu_setup.gpus)]).gpu_memory_limit
    ELSE gpu_setup.gpu_memory_limit

\* the hyperopt_dict built for one sampled configuration: of its entries the
\* model keeps parameters, model_definition, gpus and gpu_memory_limit
HyperoptDict(params, modified_model_definition) ==
    [parameters |-> params, model_definition |-> modified_model_definition,
     gpus |-> gpu_setup.gpus, gpu_memory_limit |-> gpu_memory_limit_after_setup]

\* a slip: no copy is made and substitute_parameters works on the caller's
\* object
copy_alias(x) == [alias |-> TRUE, value |-> x]

\* copy.deepcopy: a new object of equal value
copy_deepcopy(x) == [alias |-> FALSE, value |-> x]

\* for parameters in sampled_parameters: substitute_parameters(
\* copy.deepcopy(model_definition), parameters).  substitute_parameters
\* changes its argument in place: model_definition is the caller's object
\* after the loop, modified the list of the objects handed on.
RECURSIVE substitute_each(_, _)
substitute_each(md, sampled) ==
    IF sampled = <<>>
    THEN [raised |-> FALSE, model_definition |-> md, modified |-> <<>>]
    ELSE LET target == copy_deepcopy(md)
             r      == substitute_parameters(target.value, Head(sampled))
         IN IF r.raised
            THEN [raised |-> TRUE, model_definition |-> md, modified |-> <<>>]
            ELSE LET rest == substitute_each(IF target.alias THEN r.ret ELSE md,
                                             Tail(sampled))
                 IN [raised |-> rest.raised,
                     model_definition |-> rest.model_definition,
                     modified |-> <<r.ret>> \o rest.modified]

\* for comparison: the list as it would be if it were created inside the loop
next_hyperopt_parameters_fresh(old, sampled, modified) ==
    [i \in 1..Len(sampled) |-> HyperoptDict(sampled[i], modified[i])]

\* ParallelExecutor.execute: hyperopt_parameters is created once, before the
\* loop, and every batch is appended to it
next_hyperopt_parameters(old, sampled, modified) ==
    old \o [i \in 1..Len(sampled) |-> HyperoptDict(sampled[i], modified[i])]

\* the strategy is not finished: sample_batch(), and for ParallelExecutor the
\* hyperopt_dict of every sampled configuration is appended
ExecSample ==
    /\ pc = "loop"
    /\ ~finished(strategy)
    /\ \E suggestions \in [1..1 -> Suggestions(strategy)] :
        LET r == sample_batch(strategy, 1, suggestions) IN
        /\ strategy' = r.strategy
        /\ IF r.raised
           THEN /\ pc' = "failed"
                /\ UNCHANGED <<sampled_parameters, proposed,
                               hyperopt_parameters, model_definition>>
           ELSE /\ sampled_parameters' = r.ret
                /\ proposed' = proposed \o r.ret
                /\ IF executor.type = "parallel"
                   THEN LET sub == substitute_each(model_definition, r.ret) IN
                        /\ model_definition' = sub.model_definition
                        /\ pc' = IF sub.raised THEN "failed" ELSE "run"
                        /\ hyperopt_parameters' =
                              IF sub.raised THEN hyperopt_parameters
                              ELSE next_hyperopt_parameters(hyperopt_parameters,
                                                            r.ret, sub.modified)
                   ELSE /\ pc' = "run"
                        /\ UNCHANGED <<hyperopt_parameters, model_definition>>
    /\ metric_scores' = <<>>
    /\ UNCHANGED <<batch_results, hyperopt_results, returned, gpu_setup,
                   queue, tasks, workers, dispatched, executor>>
    /\ UNCHANGED <<parameters, call, updates>>

\* the strategy is finished: the results are sorted and returned
ExecReturn ==
    /\ pc = "loop"
    /\ finished(strategy)
    /\ returned' = sort_hyperopt_results(hyperopt_results, strategy.goal)
    /\ pc' = "done"
    /\ UNCHANGED <<sampled_parameters, metric_scores, hyperopt_parameters,
                   batch_results, hyperopt_results, gpu_setup, queue, tasks,
                   workers, dispatched, executor, model_definition>>
    /\ UNCHANGED strategy_vars

\* SerialExecutor: the next trial of the batch, in the calling process
SerialTrial ==
    /\ pc = "run"
    /\ executor.type = "serial"
    /\ Len(metric_scores) < Len(sampled_parameters)
    /\ \E outcome \in TrialOutcomes :
        LET params == sampled_parameters[Len(metric_scores) + 1]
            sub    == substitute_each(model_definition, <<params>>)
        IN
        /\ model_definition' = sub.model_definition
        /\ IF sub.raised \/ outcome.raised
           THEN /\ pc' = "failed"
                /\ UNCHANGED <<metric_scores, hyperopt_results>>
           ELSE LET res == TrialResult(executor, params,
                               train_and_eval_on_split(
                                   HyperoptDict(params, sub.modified[1]), outcome))
                IN /\ metric_scores' = Append(metric_scores, res.metric_score)
                   /\ hyperopt_results' = Append(hyperopt_results, res)
                   /\ pc' = "run"
    /\ UNCHANGED <<sampled_parameters, hyperopt_parameters, batch_results,
                   returned, gpu_setup, queue, tasks, workers, dispatched,
                   executor>>
    /\ UNCHANGED strategy_vars

\* zip(sampled_parameters, metric_scores)
zip(a, b) == [i \in 1..Min(Len(a), Len(b)) |-> <<a[i], b[i]>>]

\* SerialExecutor: the batch is over, update_batch
SerialUpdate ==
    /\ pc = "run"
    /\ executor.type = "serial"
    /\ Len(metric_scores) = Len(sampled_parameters)
    /\ strategy' = update_batch(strategy, zip(sampled_parameters, metric_scores))
    /\ updates' = updates \o zip(sampled_parameters, metric_scores)
    /\ pc' = "loop"
    /\ UNCHANGED <<sampled_parameters, metric_scores, hyperopt_parameters,
                   batch_results, hyperopt_results, returned, gpu_setup,
                   queue, tasks, workers, dispatched, executor,
                   model_definition>>
    /\ UNCHANGED <<parameters, call, proposed>>

\* the argument list of pool.map: ParallelExecutor hands over
\* hyperopt_parameters, FiberExecutor the model definitions it builds here
MapArguments(modified) ==
    IF executor.type = "parallel" THEN hyperopt_parameters
    ELSE [i \in 1..Len(sampled_parameters) |->
            HyperoptDict(sampled_parameters[i], modified[i])]

\* ParallelExecutor, FiberExecutor: pool.map hands the list to the pool
PoolMap ==
    /\ pc = "run"
    /\ executor.type \in {"parallel", "fiber"}
    /\ LET sub == IF executor.type = "fiber"
                  THEN substitute_each(model_definition, sampled_parameters)
                  ELSE [raised |-> FALSE, model_definition |-> model_definition,
                        modified |-> <<>>]
           args == MapArguments(sub.modified)
       IN /\ model_definition' = sub.model_definition
          /\ IF sub.raised
             THEN /\ pc' = "failed"
                  /\ UNCHANGED <<tasks, dispatched>>
             ELSE /\ tasks' = [i \in 1..Len(args) |->
                                 [arg |-> args[i], state |-> "pending",
                                  result |-> <<>>]]
                  /\ dispatched' = Append(dispatched,
                                     [i \in 1..Len(args) |-> args[i].parameters])
                  /\ pc' = "map"
    /\ UNCHANGED <<sampled_parameters, metric_scores, hyperopt_parameters,
                   batch_results, hyperopt_results, returned, gpu_setup,
                   queue, workers, executor>>
    /\ UNCHANGED strategy_vars

\* an idle worker takes the next task of the pool's task queue
WorkerTake(w) ==
    /\ pc = "map"
    /\ workers[w].stage = "idle"
    /\ \E i \in 1..Len(tasks) :
        /\ tasks[i].state = "pending"
        /\ \A j \in 1..(i - 1) : tasks[j].state # "pending"
        /\ tasks' = [tasks EXCEPT ![i].state = "taken"]
        /\ workers' = [workers EXCEPT ![w] =
                          [stage |-> IF GpuMode THEN "get" ELSE "train",
                           task |-> i, slot |-> <<>>]]
    /\ UNCHANGED <<pc, sampled_parameters, metric_scores, hyperopt_parameters,
                   batch_results, hyperopt_results, returned, gpu_setup,
                   queue, dispatched, executor, model_definition>>
    /\ UNCHANGED strategy_vars

\* a slip: the slot is read and left in the queue
queue_peek(q) == [item |-> Head(q), queue |-> q]

\* Queue.get on a queue that is not empty: the item and the queue without it
queue_get(q) == [item |-> Head(q), queue |-> Tail(q)]

\* hyperopt_dict["gpus"] = gpu_id_meta["gpu_id"] and
\* hyperopt_dict["gpu_memory_limit"] = gpu_id_meta["gpu_memory_limit"]; gpus,
\* a string of ids, is the sequence of the ids it names
pin(hyperopt_dict, gpu_id_meta) ==
    [hyperopt_dict EXCEPT !.gpus = <<gpu_id_meta.gpu_id>>,
                          !.gpu_memory_limit = gpu_id_meta.gpu_memory_limit]

\* _train_and_eval_model_gpu: gpu_id_meta = self.queue.get(), which blocks
\* while the queue is empty; the worker's hyperopt_dict is then given the
\* device and the limit of the slot
WorkerGet(w) ==
    /\ pc = "map"
    /\ workers[w].stage = "get"
    /\ queue # <<>>
    /\ LET got == queue_get(queue) IN
       /\ workers' = [workers EXCEPT ![w].stage = "train",
                                     ![w].slot = <<got.item>>]
       /\ queue' = got.queue
       /\ tasks' = [tasks EXCEPT ![workers[w].task].arg = pin(@, got.item)]
    /\ UNCHANGED <<pc, sampled_parameters, metric_scores, hyperopt_parameters,
                   batch_results, hyperopt_results, returned, gpu_setup,
                   dispatched, executor, model_definition>>
    /\ UNCHANGED strategy_vars

\* what a pool task returns: ParallelExecutor's workers return the result
\* dict, FiberExecutor's return the statistics
TaskResult(arg, outcome) ==
    LET stats == train_and_eval_on_split(arg, outcome) IN
    IF executor.type = "parallel"
    THEN TrialResult(executor, arg.parameters, stats)
    ELSE stats

\* the trial of a worker ends: it returns or raises; in GPU mode the slot
\* goes back to the queue in the finally clause
WorkerFinish(w) ==
    /\ pc = "map"
    /\ workers[w].stage = "train"
    /\ \E outcome \in TrialOutcomes :
        LET i == workers[w].task
            t == tasks[i]
        IN
        /\ tasks' = [tasks EXCEPT ![i] =
                        IF outcome.raised
                        THEN [t EXCEPT !.state = "raised"]
                        ELSE [t EXCEPT !.state = "returned",
                                       !.result = <<TaskResult(t.arg, outcome)>>]]
        /\ queue' = IF GpuMode
                    THEN release(queue, workers[w].slot[1], outcome.raised)
                    ELSE queue
    /\ workers' = [workers EXCEPT ![w] = IdleWorker]
    /\ UNCHANGED <<pc, sampled_parameters, metric_scores, hyperopt_parameters,
                   batch_results, hyperopt_results, returned, gpu_setup,
                   dispatched, executor, model_definition>>
    /\ UNCHANGED strategy_vars

\* a slip: map returns with the first result
map_returns_early(ts) ==
    \E i \in 1..Len(ts) : ts[i].state \in {"returned", "raised"}

\* pool.map returns (or raises) once every task has returned or raised
map_returns(ts) ==
    \A i \in 1..Len(ts) : ts[i].state \in {"returned", "raised"}

\* a slip: the exception of a task is dropped
map_raises_never(ts) == FALSE

\* pool.map raises the exception of a task that raised
map_raises(ts) == \E i \in 1..Len(ts) : ts[i].state = "raised"

\* the results of the tasks, in the order of the arguments
RECURSIVE map_results(_)
map_results(ts) ==
    IF ts = <<>> THEN <<>> ELSE Head(ts).result \o map_results(Tail(ts))

\* ParallelExecutor, FiberExecutor: pool.map is over.  If a task raised,
\* map raises and execute ends; otherwise the results are recorded and the
\* strategy is updated.
Collect ==
    /\ pc = "map"
    /\ map_returns(tasks)
    /\ IF map_raises(tasks)
       THEN /\ pc' = "failed"
            /\ UNCHANGED <<metric_scores, batch_results, hyperopt_results,
                           strategy, updates>>
       ELSE /\ pc' = "loop"
            /\ batch_results' = map_results(tasks)
            /\ IF executor.type = "parallel"
               THEN LET tuples == [i \in 1..Len(batch_results') |->
                                      <<batch_results'[i].parameters,
                                        batch_results'[i].metric_score>>]
                    IN /\ strategy' = update_batch(strategy, tuples)
                       /\ updates' = updates \o tuples
                       /\ hyperopt_results' = hyperopt_results \o batch_results'
                       /\ UNCHANGED metric_scores
               ELSE LET pairs == zip(batch_results', sampled_parameters)
                        res == [i \in 1..Len(pairs) |->
                                  TrialResult(executor, pairs[i][2], pairs[i][1])]
                        scores == [i \in 1..Len(res) |-> res[i].metric_score]
                    IN /\ metric_scores' = scores
                       /\ hyperopt_results' = hyperopt_results \o res
                       /\ strategy' = update_batch(strategy,
                                          zip(sampled_parameters, scores))
                       /\ updates' = updates \o zip(sampled_parameters, scores)
    /\ tasks' = <<>>
    /\ UNCHANGED <<sampled_parameters, hyperopt_parameters, returned,
                   gpu_setup, queue, workers, dispatched, executor,
                   model_definition>>
    /\ UNCHANGED <<parameters, call, proposed>>

Next ==
    \/ ExecStart
    \/ ExecSample
    \/ ExecReturn
    \/ SerialTrial
    \/ SerialUpdate
    \/ PoolMap
    \/ \E w \in DOMAIN workers : WorkerTake(w)
    \/ \E w \in DOMAIN workers : WorkerGet(w)
    \/ \E w \in DOMAIN workers : WorkerFinish(w)
    \/ Collect

\* execute() of any executor with any strategy
Spec == ExecutorInit /\ [][Next]_vars

\* the steps of the process that called execute
MainProcess ==
    \/ ExecStart
    \/ ExecSample
    \/ ExecReturn
    \/ SerialTrial
    \/ SerialUpdate
    \/ PoolMap
    \/ Collect

\* the steps of one worker process of the pool
Worker(w) ==
    /\ w \in DOMAIN workers
    /\ (WorkerTake(w) \/ WorkerGet(w) \/ WorkerFinish(w))

\* the calling process goes on while it can, a trial ends (SerialTrial,
\* WorkerFinish), and a worker that can take a task or a slot does not wait
\* forever
Fairness ==
    /\ WF_vars(MainProcess)
    /\ \A w \in 1..MaxWorkers : WF_vars(Worker(w))

\* execute() with trials that end and processes that are scheduled
SpecFair == ExecutorInit /\ [][Next]_vars /\ Fairness

-----------------------------------------------------------------------------
(* The GPU setup of ParallelExecutor.execute on its own, over more machines *)

\* free memory of a device, in MB
FreeMemory == {0, 100, 400, 1000, 3000}

\* what nvidia-smi reports: one or two devices
FreeMemoryLists == [1..1 -> FreeMemory] \cup [1..2 -> FreeMemory]

\* the gpus argument, split
GpuLists == {<<0>>, <<0, 1>>}

\* the gpu_memory_limit argument
MemoryLimits == {<<>>, <<300>>, <<2000>>}

\* nvidia-smi is missing, exits with an error, or prints a line without a number
FailingTools ==
    {check_output_raises("FileNotFoundError"),
     check_output_raises("CalledProcessError"),
     check_output(<<HeaderLine, UnknownLine, EmptyLine>>)}

SetupRuns ==
    {<<x[1], GpuSetup(x[2], x[3], x[4])>> :
        x \in (1..MaxWorkers) \X GpuLists \X MemoryLimits \X FreeMemoryLists}
    \cup {<<x[1], GpuSetupWith(x[2], x[3], x[4])>> :
        x \in (1..MaxWorkers) \X GpuLists \X MemoryLimits \X FailingTools}

SetupInit ==
    /\ strategy = GridStrategy("minimize",
                      << <<ParamNames[2], [type |-> "category", values |-> <<16>>]>> >>)
    /\ parameters = strategy.parameters
    /\ call = NoCall(strategy)
    /\ proposed = <<>>
    /\ updates = <<>>
    /\ \E run \in SetupRuns :
          /\ executor = Executor("parallel", run[1])
          /\ gpu_setup = run[2]
    /\ workers = <<>>
    /\ pc = "start"
    /\ sampled_parameters = <<>>
    /\ metric_scores = <<>>
    /\ hyperopt_parameters = <<>>
    /\ batch_results = <<>>
    /\ hyperopt_results = <<>>
    /\ returned = <<>>
    /\ queue = <<>>
    /\ tasks = <<>>
    /\ dispatched = <<>>
    /\ model_definition = ExecutorModelDefinition

\* execute up to its while loop
SpecSetup == SetupInit /\ [][ExecStart]_vars

-----------------------------------------------------------------------------
(* Properties of the executors *)

ParametersOf(results) == [i \in 1..Len(results) |-> results[i].parameters]

\* the lists of a list of lists, joined
RECURSIVE Flatten(_)
Flatten(ls) == IF ls = <<>> THEN <<>> ELSE Head(ls) \o Flatten(Tail(ls))

\* C1: when execute returns, the list it returns holds exactly one result for
\* each configuration the strategy proposed: none is missing, none is there
\* more often than it was proposed.
C1_OneResultPerProposal ==
    pc = "done" => BagOfSeq(ParametersOf(returned)) = BagOfSeq(proposed)

\* C2: a pool.map call of ParallelExecutor dispatches exactly the batch that
\* sample_batch returned in the same iteration, so that over the run every
\* proposed configuration is dispatched once.
C2_DispatchSampledBatch ==
    (executor.type = "parallel" /\ pc = "map") =>
        /\ dispatched[Len(dispatched)] = sampled_parameters
        /\ Flatten(dispatched) = proposed

\* the slots held by the trials that are running
HeldSlots ==
    BagOfSeq(Flatten([w \in DOMAIN workers |-> workers[w].slot]))

TrialInFlight ==
    \E w \in DOMAIN workers : workers[w].stage = "train"

\* C3: once the slot queue of ParallelExecutor is built, the slots in the
\* queue together with the slots held by running trials are the slots created
\* at setup, and with no trial in flight the queue holds exactly those,
\* whether the trials return or raise.
C3_SlotConservation ==
    (GpuMode /\ pc # "start"
        /\ ~setup_raises(gpu_setup, executor.num_workers)) =>
        LET created == BagOfSeq(initial_queue(gpu_setup, executor.num_workers, 1))
        IN /\ BagOfSeq(queue) (+) HeldSlots = created
           /\ ~TrialInFlight => BagOfSeq(queue) = created

\* a batch in which one trial returned and one raised is over, and the three
\* slots of the setup are in the queue
C3_Witness ==
    /\ GpuMode
    /\ pc = "map"
    /\ Len(tasks) = 2
    /\ \E i \in 1..Len(tasks) : tasks[i].state = "raised"
    /\ \E i \in 1..Len(tasks) : tasks[i].state = "returned"
    /\ Len(queue) = 3

\* every trial of the current batch has run to its end
BatchCompleted ==
    IF executor.type = "serial"
    THEN Len(metric_scores) = Len(sampled_parameters)
    ELSE /\ Len(tasks) >= Len(sampled_parameters)
         /\ \A i \in 1..Len(tasks) : tasks[i].state = "returned"

UpdatedParameters == [i \in 1..Len(updates) |-> updates[i][1]]

\* C4: the strategy is updated with a batch only when every trial of the
\* batch has completed, and a configuration is sampled only when update() has
\* been called for every configuration proposed before.
C4_BatchBarrier ==
    [][/\ updates' # updates => BatchCompleted
       /\ proposed' # proposed =>
             BagOfSeq(proposed) \sqsubseteq BagOfSeq(UpdatedParameters)]_vars

\* the second batch of a ParallelExecutor run has been collected
C4_Witness ==
    /\ executor.type = "parallel"
    /\ Len(proposed) = 2
    /\ Len(updates) = 3
    /\ pc = "loop"

\* C10: the list execute returns is ordered by metric_score, non-decreasing
\* for the goal minimize and non-increasing for maximize, and it is a
\* permutation of the accumulated results.
C10_Ranked ==
    pc = "done" =>
        /\ \A i \in 1..(Len(returned) - 1) :
              IF strategy.goal = "minimize"
              THEN returned[i].metric_score <= returned[i + 1].metric_score
              ELSE returned[i].metric_score >= returned[i + 1].metric_score
        /\ BagOfSeq(returned) = BagOfSeq(hyperopt_results)

\* a run for the goal maximize whose results came in ascending order
C10_Witness ==
    /\ pc = "done"
    /\ strategy.goal = "maximize"
    /\ Len(hyperopt_results) >= 2
    /\ hyperopt_results[1].metric_score < hyperopt_results[2].metric_score
    /\ returned[1].metric_score > returned[Len(returned)].metric_score

\* the results with a given metric score, in their order in the list
WithScore(results, m) ==
    LET Test(r) == r.metric_score = m IN SelectSeq(results, Test)

\* C11: the ranking is stable for both goals: the results of equal
\* metric_score stand in the returned list in the order in which they were
\* accumulated.
C11_StableRanking ==
    pc = "done" =>
        \A m \in Scores :
            WithScore(returned, m) = WithScore(hyperopt_results, m)

\* a run for the goal maximize that returns two different results of equal score
C11_Witness ==
    /\ pc = "done"
    /\ strategy.goal = "maximize"
    /\ \E i, j \in 1..Len(returned) :
          /\ i < j
          /\ returned[i].metric_score = returned[j].metric_score
          /\ returned[i] # returned[j]

-----------------------------------------------------------------------------
(* The module's functions called on their own: the variable call holds the *)
(* last call, its arguments and its outcome.                                *)

\* the values a mapping gives to a parameter
MappedValues == {"rnn", "label", "category"}

\* a training section without and with an optimizer dict
TrainingSections ==
    {[k \in {"lr"} |-> Scalar("small")],
     [k \in {"lr", "optimizer"} |->
        IF k = "lr" THEN Scalar("small")
        ELSE Dict([j \in {"type", "lr"} |-> Scalar("small")])]}

ModelDefinitions ==
    {[input_features  |-> x[1],
      output_features |-> x[2],
      combiner        |-> [k \in {"type"} |-> Scalar("concat")],
      training        |-> x[3],
      preprocessing   |-> <<>>] :
        x \in {<<TextFeature>>, <<LabelFeature, TextFeature>>}
              \X {<<>>, <<LabelFeature>>}
              \X TrainingSections}

\* the mappings: at most MaxMapped parameters
Mappings ==
    UNION {[names -> MappedValues] :
              names \in {ns \in SUBSET SubstitutedNames :
                            Cardinality(ns) <= MaxMapped}}

\* the lists of the names of a set, each name once
Orderings(S) ==
    {o \in [1..Cardinality(S) -> S] :
        \A i, j \in 1..Cardinality(S) : i # j => o[i] # o[j]}

\* parameters.items() of a mapping, as lists of names: every order when one
\* name extends another, and one order otherwise, where the order of the
\* items makes no difference
Orders(m) ==
    IF \E n1, n2 \in DOMAIN m : begins(n1, n2)
    THEN Orderings(DOMAIN m)
    ELSE {SelectSeq(SubstitutedNameList, LAMBDA n : n \in DOMAIN m)}

\* the mappings with the order of their items
OrderedMappings == UNION {{<<m, o>> : o \in Orders(m)} : m \in Mappings}

\* what the nvidia-smi call can do
Tools ==
    FailingTools \cup {check_output(nvidia_smi_output(a)) : a \in FreeMemoryLists}

\* the keyword arguments of int_grid_function: a range with low <= high,
\* with and without steps
IntGridArgs ==
    LET ranges == {r \in (-MaxInt..MaxInt) \X (-MaxInt..MaxInt) : r[1] <= r[2]}
    IN {[range |-> r] : r \in ranges}
       \cup {[range |-> r, steps |-> n] : r \in ranges, n \in 0..MaxSteps}

\* the keyword arguments of float_grid_function
FloatGridArgs ==
    LET ranges == {r \in (0..MaxReal) \X (0..MaxReal) : r[1] <= r[2]}
        spaces == {"linear", "log", "quadratic"}
    IN {[range |-> r, space |-> sp] : r \in ranges, sp \in spaces}
       \cup {[range |-> r, space |-> sp, steps |-> n] :
               r \in ranges, sp \in spaces, n \in 0..MaxSteps}
       \cup {[range |-> r, space |-> sp, base |-> 2] :
               r \in ranges, sp \in spaces}

\* declarations of real parameters with a known and an unknown space, next
\* to an int parameter
RealParamSpecs ==
    {[type |-> "real", range |-> <<0, RealUnit>>, steps |-> 2,
      space |-> "linear"],
     [type |-> "real", range |-> <<0, RealUnit>>, steps |-> 2,
      space |-> "quadratic"],
     [type |-> "int", range |-> <<0, 1>>]}

\* a call about to be made, with its arguments
Calls ==
    {[op |-> "get_available_gpu_memory", done |-> FALSE, tool |-> tool] :
        tool \in Tools}
    \cup {[op |-> "substitute_parameters", done |-> FALSE,
           model_definition |-> c, parameters |-> mo[1], order |-> mo[2]] :
             c \in ModelDefinitions, mo \in OrderedMappings}
    \cup {[op |-> "int_grid_function", done |-> FALSE, args |-> p] :
             p \in IntGridArgs}
    \cup {[op |-> "float_grid_function", done |-> FALSE, args |-> p] :
             p \in FloatGridArgs}
    \cup {[op |-> "GridStrategy", done |-> FALSE, goal |-> g,
           hp_parameters |-> ps, kwargs |-> <<>>] :
             g \in Goals, ps \in Declarations(RealParamSpecs)}

FunctionsInit ==
    /\ strategy = [type |-> "none"]
    /\ parameters = <<>>
    /\ call \in Calls
    /\ proposed = <<>>
    /\ updates = <<>>
    /\ ExecutorIdle

\* get_available_gpu_memory() returns or raises
GetAvailableGpuMemory ==
    /\ call.op = "get_available_gpu_memory"
    /\ ~call.done
    /\ call' = [op |-> call.op, done |-> TRUE, tool |-> call.tool,
                result |-> get_available_gpu_memory(call.tool)]
    /\ UNCHANGED <<parameters, strategy, proposed, updates>>
    /\ UNCHANGED executor_vars

\* substitute_parameters(model_definition, parameters) returns or raises
SubstituteParameters ==
    /\ call.op = "substitute_parameters"
    /\ ~call.done
    /\ LET r == substitute_parameters_ordered(call.model_definition,
                                              call.parameters, call.order) IN
       call' = [op |-> call.op, done |-> TRUE,
                model_definition |-> call.model_definition,
                parameters |-> call.parameters, order |-> call.order,
                raised |-> r.raised,
                ret |-> IF r.raised THEN <<>> ELSE r.ret]
    /\ UNCHANGED <<parameters, strategy, proposed, updates>>
    /\ UNCHANGED executor_vars

\* substitute_parameters called once more on what it returned, with the same
\* mapping
SubstituteAgain ==
    /\ call.op = "substitute_parameters"
    /\ call.done
    /\ ~call.raised
    /\ LET r == substitute_parameters_ordered(call.ret, call.parameters,
                                              call.order) IN
       call' = [op |-> "substitute_parameters_again", done |-> TRUE,
                original |-> call.model_definition,
                model_definition |-> call.ret,
                parameters |-> call.parameters, order |-> call.order,
                raised |-> r.raised,
                ret |-> IF r.raised THEN <<>> ELSE r.ret]
    /\ UNCHANGED <<parameters, strategy, proposed, updates>>
    /\ UNCHANGED executor_vars

\* int_grid_function(**args) returns
IntGridFunction ==
    /\ call.op = "int_grid_function"
    /\ ~call.done
    /\ call' = [op |-> call.op, done |-> TRUE, args |-> call.args,
                ret |-> int_grid_function(call.args)]
    /\ UNCHANGED <<parameters, strategy, proposed, updates>>
    /\ UNCHANGED executor_vars

\* float_grid_function(**args) returns or raises
FloatGridFunction ==
    /\ call.op = "float_grid_function"
    /\ ~call.done
    /\ call' = [op |-> call.op, done |-> TRUE, args |-> call.args,
                result |-> float_grid_function(call.args)]
    /\ UNCHANGED <<parameters, strategy, proposed, updates>>
    /\ UNCHANGED executor_vars

\* GridStrategy(goal, parameters) returns the object or raises
ConstructGridStrategy ==
    /\ call.op = "GridStrategy"
    /\ ~call.done
    /\ call' = [op |-> call.op, done |-> TRUE, goal |-> call.goal,
                hp_parameters |-> call.hp_parameters, kwargs |-> call.kwargs,
                result |-> GridStrategy__init__(call.goal, call.hp_parameters)]
    /\ UNCHANGED <<parameters, strategy, proposed, updates>>
    /\ UNCHANGED executor_vars

\* sample() on the object the constructor returned
SampleConstructed ==
    /\ call.op = "GridStrategy"
    /\ call.done
    /\ ~call.result.raised
    /\ LET r == sample(call.result.strategy, <<>>) IN
       call' = [op |-> "GridStrategy.sample", done |-> TRUE,
                goal |-> call.goal, hp_parameters |-> call.hp_parameters,
                kwargs |-> call.kwargs, raised |-> r.raised, ret |-> r.ret]
    /\ UNCHANGED <<parameters, strategy, proposed, updates>>
    /\ UNCHANGED executor_vars

FunctionsNext ==
    \/ GetAvailableGpuMemory
    \/ SubstituteParameters
    \/ SubstituteAgain
    \/ IntGridFunction
    \/ FloatGridFunction
    \/ ConstructGridStrategy
    \/ SampleConstructed

SpecFunctions == FunctionsInit /\ [][FunctionsNext]_vars

-----------------------------------------------------------------------------
(* Properties of the GPU setup *)

\* the setup is over and has built the slot queue
SlotsBuilt == executor.type = "parallel" /\ gpu_setup.gpus # <<>> /\ pc = "loop"

\* free memory of a device
FreeOf(gpu_id) == gpu_setup.available_gpu_memory_list[gpu_id + 1]

\* a stored memory limit (a caller's value <<n>> or a computed fraction
\* <<numerator, denominator>>) compared with a number of MB
LimitLess(limit, mb) ==
    IF Len(limit) = 1 THEN limit[1] < mb ELSE limit[1] < mb * limit[2]
LimitAtMost(limit, mb) ==
    IF Len(limit) = 1 THEN limit[1] <= mb ELSE limit[1] <= mb * limit[2]

\* C12: with fewer devices than workers and no gpu_memory_limit given, the
\* limit computed for a device is strictly less than the device's free
\* memory, process_per_gpu times the limit is at most the free memory, and
\* the slots of the device carry that limit.
C12_ComputedLimit ==
    (/\ SlotsBuilt
     /\ Len(gpu_setup.gpus) < executor.num_workers
     /\ gpu_setup.gpu_memory_limit = <<>>) =>
        \A k \in 1..Len(gpu_setup.gpus) :
            LET gpu_id == gpu_setup.gpus[k]
                meta   == gpu_ids_meta(gpu_setup, executor.num_workers, gpu_id)
                limit  == meta.gpu_memory_limit
            IN /\ LimitLess(limit, FreeOf(gpu_id))
               /\ meta.process_per_gpu * limit[1] <= FreeOf(gpu_id) * limit[2]
               /\ \A i \in 1..Len(queue) :
                     queue[i].gpu_id = gpu_id => queue[i].gpu_memory_limit = limit

\* two devices and four workers, slots built for both devices
C12_Witness ==
    /\ SlotsBuilt
    /\ executor.num_workers = 4
    /\ gpu_setup.gpus = <<0, 1>>
    /\ gpu_setup.gpu_memory_limit = <<>>
    /\ \E i, j \in 1..Len(queue) : queue[i].gpu_id = 0 /\ queue[j].gpu_id = 1

\* C13: when the gpu_memory_limit given by the caller exceeds the free
\* memory of a device in use, the limit stored in the slots of that device is
\* at most the free memory minus epsilon_memory.
C13_ClampedLimit ==
    (SlotsBuilt /\ gpu_setup.gpu_memory_limit # <<>>) =>
        \A i \in 1..Len(queue) :
            LET gpu_id == queue[i].gpu_id IN
            (/\ gpu_id + 1 <= Len(gpu_setup.available_gpu_memory_list)
             /\ gpu_setup.gpu_memory_limit[1] > FreeOf(gpu_id)) =>
                LimitAtMost(queue[i].gpu_memory_limit,
                            FreeOf(gpu_id) - epsilon_memory)

-----------------------------------------------------------------------------
(* Properties of a failing trial *)

\* a trial of the batch in progress has raised
TrialRaised == \E i \in 1..Len(tasks) : tasks[i].state = "raised"

\* the number of slots the setup has put in the queue
SlotsPut == Len(initial_queue(gpu_setup, executor.num_workers, 1))

\* C14: when a trial raises, execute ends with the failure: nothing is
\* returned, the strategy gets no update for the batch and samples nothing
\* more, the trial that raised is not run again and the run does not go on
\* without it, and in GPU mode every slot, the failing trial's included, is
\* back in the queue.
C14_FailingTrial ==
    [][/\ pc # "failed"
       /\ (pc \in {"run", "map"} /\ pc' # "loop") =>
             /\ updates' = updates
             /\ strategy' = strategy
             /\ proposed' = proposed
       /\ TrialRaised =>
             /\ pc' \in {"map", "failed"}
             /\ pc' = "map" =>
                   \A i \in 1..Len(tasks) :
                       tasks[i].state = "raised" => tasks'[i].state = "raised"
       /\ (pc \in {"run", "map"} /\ pc' = "failed") =>
             /\ returned' = <<>>
             /\ hyperopt_results' = hyperopt_results
             /\ \A w \in DOMAIN workers : workers'[w] = IdleWorker
             /\ GpuMode => Len(queue') = SlotsPut]_vars

\* the second pool.map call of a run with GPU slots has ended with the
\* exception of a trial
C14_Witness ==
    /\ pc = "failed"
    /\ GpuMode
    /\ queue # <<>>
    /\ Len(dispatched) = 2
    /\ Len(updates) = 1

-----------------------------------------------------------------------------
(* Properties of the functions *)

\* C15: when the nvidia-smi call fails, get_available_gpu_memory raises the
\* exception of that call.
C15_QueryFailureSurfaces ==
    (call.op = "get_available_gpu_memory" /\ call.done /\ call.tool.raised) =>
        /\ call.result.raised
        /\ call.result.exception = call.tool.exception

\* the value a mapping gives to a path of segments: <<v>>, or <<>> if none
Mapped(m, path) ==
    LET ns == {n \in DOMAIN m : split(n) = path} IN
    IF ns = {} THEN <<>> ELSE <<m[CHOOSE n \in ns : TRUE]>>

\* a name of the mapping leads below the path
MappedBelow(m, path) ==
    \E n \in DOMAIN m :
        Len(split(n)) > Len(path) /\ SubSeq(split(n), 1, Len(path)) = path

\* the dict found under the first segment has every leaf the mapping
\* addresses, with the mapped value, and is otherwise as before
DictSubstituted(before, after, m, first) ==
    /\ DOMAIN before \subseteq DOMAIN after
    /\ \A key \in DOMAIN after :
          IF Mapped(m, <<first, key>>) # <<>>
          THEN after[key] = Scalar(Mapped(m, <<first, key>>)[1])
          ELSE IF MappedBelow(m, <<first, key>>)
          THEN /\ key \in DOMAIN before
               /\ before[key].dict
               /\ after[key].dict
               /\ DOMAIN before[key].items \subseteq DOMAIN after[key].items
               /\ \A sub \in DOMAIN after[key].items :
                     IF Mapped(m, <<first, key, sub>>) # <<>>
                     THEN after[key].items[sub] =
                              Scalar(Mapped(m, <<first, key, sub>>)[1])
                     ELSE /\ sub \in DOMAIN before[key].items
                          /\ after[key].items[sub] = before[key].items[sub]
          ELSE key \in DOMAIN before /\ after[key] = before[key]
    /\ \A n \in DOMAIN m :
          split(n)[1] = first =>
              /\ split(n)[2] \in DOMAIN after
              /\ Len(split(n)) = 3 => split(n)[3] \in DOMAIN after[split(n)[2]].items

FeaturesSubstituted(before, after, m) ==
    /\ Len(after) = Len(before)
    /\ \A i \in 1..Len(before) :
          DictSubstituted(before[i], after[i], m, before[i]["name"].v)

\* C16: a successful substitute_parameters gives every leaf the mapping
\* addresses (under a feature's name, combiner, training or preprocessing)
\* the mapped value and leaves every other key of the model definition,
\* those of features that are not addressed included, as it was.
C16_Substituted ==
    (call.op = "substitute_parameters" /\ call.done /\ ~call.raised) =>
        LET c == call.model_definition
            r == call.ret
            m == call.parameters
        IN /\ FeaturesSubstituted(c.input_features, r.input_features, m)
           /\ FeaturesSubstituted(c.output_features, r.output_features, m)
           /\ DictSubstituted(c.combiner, r.combiner, m, "combiner")
           /\ DictSubstituted(c.training, r.training, m, "training")
           /\ DictSubstituted(c.preprocessing, r.preprocessing, m, "preprocessing")

\* of two input features one has been given a new value, the other none
C16_Witness ==
    /\ call.op = "substitute_parameters"
    /\ call.done
    /\ ~call.raised
    /\ call.model_definition.input_features = <<LabelFeature, TextFeature>>
    /\ call.ret.input_features[1] = LabelFeature
    /\ call.ret.input_features[2]["cell"] = Scalar("rnn")
    /\ call.ret.training # call.model_definition.training

\* the names of the features of a model definition
FeatureNamesOf(c) ==
    [i \in 1..Len(c.input_features) |-> c.input_features[i]["name"].v]
    \o [i \in 1..Len(c.output_features) |-> c.output_features[i]["name"].v]

\* C17, as claimed: whenever substitute_parameters succeeds, applying it
\* again with the same mapping succeeds and changes nothing.
C17_Idempotent ==
    call.op = "substitute_parameters_again" =>
        (~call.raised /\ call.ret = call.model_definition)

\* C17, amended: the same, for the mappings that leave the name of every
\* feature as it was.
C17_IdempotentNamesKept ==
    (/\ call.op = "substitute_parameters_again"
     /\ FeatureNamesOf(call.model_definition) = FeatureNamesOf(call.original)) =>
        (~call.raised /\ call.ret = call.model_definition)

\* a second application after a first one that changed a feature and the
\* optimizer, but no name
C17_Witness ==
    /\ call.op = "substitute_parameters_again"
    /\ FeatureNamesOf(call.model_definition) = FeatureNamesOf(call.original)
    /\ call.model_definition.input_features # call.original.input_features
    /\ call.model_definition.training["lr"] = call.original.training["lr"]
    /\ call.model_definition.training # call.original.training
    /\ ~call.raised

-----------------------------------------------------------------------------
(* Properties of the model definitions the executors hand to the trials *)

\* a model definition is the original with only the given parameters
\* substituted
OnlySubstituted(modified, params) ==
    LET original == ExecutorModelDefinition IN
    /\ FeaturesSubstituted(original.input_features, modified.input_features, params)
    /\ FeaturesSubstituted(original.output_features, modified.output_features,
                           params)
    /\ DictSubstituted(original.combiner, modified.combiner, params, "combiner")
    /\ DictSubstituted(original.training, modified.training, params, "training")
    /\ DictSubstituted(original.preprocessing, modified.preprocessing, params,
                       "preprocessing")

\* C18: execute never changes the caller's model_definition, and the model
\* definition of every trial (built, waiting in the pool, or finished) is the
\* original with only the trial's own parameters substituted.
C18_ModelDefinitionKept ==
    executor.type \in {"serial", "parallel", "fiber"} =>
        /\ model_definition = ExecutorModelDefinition
        /\ \A i \in 1..Len(hyperopt_parameters) :
              OnlySubstituted(hyperopt_parameters[i].model_definition,
                              hyperopt_parameters[i].parameters)
        /\ \A i \in 1..Len(tasks) :
              OnlySubstituted(tasks[i].arg.model_definition,
                              tasks[i].arg.parameters)
        /\ \A i \in 1..Len(hyperopt_results) :
              OnlySubstituted(hyperopt_results[i].training_stats.model_definition,
                              hyperopt_results[i].parameters)

\* a run has finished two trials with different parameters
C18_Witness ==
    /\ pc = "done"
    /\ Len(hyperopt_results) = 2
    /\ hyperopt_results[1].training_stats.model_definition.training["batch_size"]
          = Scalar(16)
    /\ hyperopt_results[2].training_stats.model_definition.training["batch_size"]
          = Scalar(32)

-----------------------------------------------------------------------------
(* Properties of the grid functions *)

\* C19: for integers low <= high, int_grid_function returns the high-low+1
\* values low, low+1, ..., high when steps is not given, and exactly steps
\* values when it is.
C19_IntGrid ==
    (call.op = "int_grid_function" /\ call.done) =>
        LET low  == call.args.range[1]
            high == call.args.range[2]
        IN IF "steps" \in DOMAIN call.args
           THEN Len(call.ret) = call.args.steps
           ELSE /\ Len(call.ret) = high - low + 1
                /\ call.ret[1] = low
                /\ call.ret[Len(call.ret)] = high
                /\ \A i \in 1..Len(call.ret) : call.ret[i] = low + i - 1

\* the grid of a range from a negative to a positive bound, without steps
C19_Witness ==
    /\ call.op = "int_grid_function"
    /\ call.done
    /\ "steps" \notin DOMAIN call.args
    /\ call.args.range[1] < 0
    /\ call.args.range[2] > 0
    /\ Len(call.ret) >= 3

\* the least integer that is not below n / RealUnit
Ceil(n) == 0 - ((0 - n) \div RealUnit)

\* C20: with steps not given, float_grid_function returns
\* ceil(high - low + 1) values.
C20_FloatGridCeil ==
    (/\ call.op = "float_grid_function"
     /\ call.done
     /\ "steps" \notin DOMAIN call.args
     /\ ~call.result.raised) =>
        Len(call.result.ret) =
            Ceil(call.args.range[2] - call.args.range[1] + RealUnit)

-----------------------------------------------------------------------------
(* Properties of the strategies under interleaved calls *)

\* C22: update and update_batch leave a GridStrategy or RandomStrategy as it
\* is; whatever update calls come between them, the k-th successful sample()
\* returns the k-th configuration of the strategy, sample() fails exactly
\* when all of them were returned, and finished() says exactly that.
C22_UpdateFrame ==
    [][strategy.type \in {"grid", "random"} =>
         /\ call'.op \in {"update", "update_batch"} => strategy' = strategy
         /\ call'.op = "sample" =>
               /\ call'.raised <=> Len(proposed) = Len(strategy.samples)
               /\ ~call'.raised =>
                     call'.ret = strategy.samples[Len(proposed) + 1]
         /\ call'.op = "finished" =>
               (call'.ret[1] <=> Len(proposed) = Len(strategy.samples))]_vars

\* update() was called on a RandomStrategy between its first and its second
\* sample()
C22_Witness ==
    /\ strategy.type = "random"
    /\ call.op = "update"
    /\ Len(proposed) = 1
    /\ Len(strategy.samples) >= 2

\* the number of configurations a strategy proposes in all
Total(s) == IF s.type = "pysot" THEN s.num_samples ELSE Len(s.samples)

\* C28: for the three strategies, after any sequence of calls, sampled_so_far
\* never exceeds the number of configurations; finished() is true exactly
\* when the next sample() would fail; a failed sample() changes no state; and
\* once finished() is true it stays true.
C28_StrategyInvariants ==
    [][/\ strategy.sampled_so_far <= Total(strategy)
       /\ strategy'.sampled_so_far <= Total(strategy')
       /\ call'.op = "sample" =>
             /\ call'.raised <=> finished(strategy)
             /\ call'.raised => strategy' = strategy
       /\ call'.op = "finished" =>
             (call'.ret[1] <=>
                 \A suggestion \in Suggestions(strategy) :
                     sample(strategy, suggestion).raised)
       /\ finished(strategy) => finished(strategy')]_vars

\* a pySOT strategy of two samples is exhausted, has been updated, and the
\* next sample() has failed
C28_Witness ==
    /\ strategy.type = "pysot"
    /\ strategy.num_samples = 2
    /\ Observed(strategy) = 1
    /\ call.op = "sample"
    /\ call.raised
    /\ finished(strategy)

-----------------------------------------------------------------------------
(* Nested parameters *)

\* C23: a mapping key of three segments, training.optimizer.lr, sets
\* training[optimizer][lr] to the mapped value and leaves every other key
\* already present in training[optimizer] as it was: the sub-dict is merged,
\* not replaced.
C23_NestedMerge ==
    (/\ call.op = "substitute_parameters"
     /\ call.done
     /\ ~call.raised
     /\ "training.optimizer.lr" \in DOMAIN call.parameters) =>
        LET before == call.model_definition.training["optimizer"]
            after  == call.ret.training["optimizer"]
        IN /\ after.dict
           /\ DOMAIN after.items = DOMAIN before.items \cup {"lr"}
           /\ after.items["lr"] = Scalar(call.parameters["training.optimizer.lr"])
           /\ \A sub \in DOMAIN before.items \ {"lr"} :
                 after.items[sub] = before.items[sub]

\* the optimizer dict had a type and a learning rate; the learning rate was
\* given a new value and the type is still there
C23_Witness ==
    /\ call.op = "substitute_parameters"
    /\ call.done
    /\ ~call.raised
    /\ "training.optimizer.lr" \in DOMAIN call.parameters
    /\ "type" \in DOMAIN call.model_definition.training["optimizer"].items
    /\ call.ret.training["optimizer"].items["lr"] = Scalar("rnn")
    /\ call.ret.training["optimizer"].items["type"] = Scalar("small")

-----------------------------------------------------------------------------
(* Unknown space of a real parameter *)

\* the declarations hold a real parameter whose space is neither linear nor
\* log
UnknownSpace(params) ==
    \E i \in 1..Len(params) :
        /\ params[i][2].type = "real"
        /\ params[i][2].space \notin {"linear", "log"}

\* C24: float_grid_function called with a space other than linear or log
\* raises and returns no grid; constructing a GridStrategy with such a real
\* parameter raises, so that there is no object whose sample() could return
\* a configuration.
C24_UnknownSpace ==
    /\ (/\ call.op = "float_grid_function"
        /\ call.done
        /\ call.args.space \notin {"linear", "log"}) =>
           (call.result.raised /\ "ret" \notin DOMAIN call.result)
    /\ (/\ call.op \in {"GridStrategy", "GridStrategy.sample"}
        /\ call.done
        /\ UnknownSpace(call.hp_parameters)) =>
           /\ call.op = "GridStrategy"
           /\ call.result.raised
           /\ "strategy" \notin DOMAIN call.result

\* the constructor has raised on two parameters of which the second one has
\* an unknown space
C24_Witness ==
    /\ call.op = "GridStrategy"
    /\ call.done
    /\ Len(call.hp_parameters) = 2
    /\ call.hp_parameters[1][2].type = "int"
    /\ call.hp_parameters[2][2].type = "real"
    /\ call.hp_parameters[2][2].space = "quadratic"
    /\ call.result.raised

-----------------------------------------------------------------------------
(* Termination of execute *)

\* C21: with a strategy of N configurations and trials that end, execute of
\* each executor eventually ends (it returns, or an exception of the setup
\* or of a trial leaves it), and when it returns the strategy has proposed
\* exactly N configurations and is finished.
C21_Terminates ==
    /\ <>(pc \in {"done", "failed"})
    /\ [](pc = "done" =>
            (Len(proposed) = Total(strategy) /\ finished(strategy)))

\* C26: in ParallelExecutor GPU mode, with trials that end, a worker that
\* waits for a slot eventually obtains one.
C26_SlotObtained ==
    \A w \in 1..MaxWorkers :
        (w \in DOMAIN workers /\ workers[w].stage = "get")
            ~> (w \in DOMAIN workers /\ workers[w].stage = "train")

-----------------------------------------------------------------------------
(* Slots for every worker *)

\* C30: after a ParallelExecutor setup with fewer devices than workers and
\* no gpu_memory_limit given, every device has a strictly positive memory
\* limit and at least one slot, and the queue holds at least num_workers
\* slots.
C30_SlotsForWorkers ==
    (/\ SlotsBuilt
     /\ Len(gpu_setup.gpus) < executor.num_workers
     /\ gpu_setup.gpu_memory_limit = <<>>) =>
        /\ \A k \in 1..Len(gpu_setup.gpus) :
              LET meta == gpu_ids_meta(gpu_setup, executor.num_workers,
                                       gpu_setup.gpus[k])
              IN /\ meta.gpu_memory_limit[1] > 0
                 /\ meta.process_per_gpu >= 1
                 /\ \E i \in 1..Len(queue) : queue[i].gpu_id = gpu_setup.gpus[k]
        /\ Len(queue) >= executor.num_workers

-----------------------------------------------------------------------------
(* Slots and running trials *)

\* the slots the setup created for a device
SlotsCreated(gpu_id) ==
    Len(SelectSeq(initial_queue(gpu_setup, executor.num_workers, 1),
                  LAMBDA s : s.gpu_id = gpu_id))

\* the workers whose trial is running on a device
RunningOn(gpu_id) ==
    {w \in DOMAIN workers :
        /\ workers[w].stage = "train"
        /\ workers[w].slot # <<>>
        /\ workers[w].slot[1].gpu_id = gpu_id}

\* C25: in ParallelExecutor GPU mode a worker holds at most one slot, a
\* worker holds one exactly while its trial is running, the trial is called
\* with the device id and the memory limit of that slot, and no more trials
\* run on a device at a time than slots were created for it.
C25_SlotsBoundTrials ==
    (GpuMode /\ workers # <<>>) =>
        /\ \A w \in DOMAIN workers :
              /\ Len(workers[w].slot) <= 1
              /\ workers[w].stage = "train" <=> Len(workers[w].slot) = 1
              /\ workers[w].stage = "train" =>
                    LET hyperopt_dict == tasks[workers[w].task].arg
                        gpu_id_meta   == workers[w].slot[1]
                    IN /\ hyperopt_dict.gpus = <<gpu_id_meta.gpu_id>>
                       /\ hyperopt_dict.gpu_memory_limit
                             = gpu_id_meta.gpu_memory_limit
        /\ \A k \in 1..Len(gpu_setup.gpus) :
              Cardinality(RunningOn(gpu_setup.gpus[k]))
                  <= SlotsCreated(gpu_setup.gpus[k])

\* two trials are running at the same time on the only device, which has
\* three slots
C25_Witness ==
    /\ GpuMode
    /\ workers # <<>>
    /\ Len(gpu_setup.gpus) = 1
    /\ Cardinality(RunningOn(gpu_setup.gpus[1])) = 2
    /\ SlotsCreated(gpu_setup.gpus[1]) = 3

-----------------------------------------------------------------------------
(* Observations delivered to the strategy *)

\* C27: when execute returns, update has been called exactly once for each
\* configuration the strategy proposed, with the metric score of that
\* configuration's trial: no observation is missing and none came twice.
C27_OneUpdatePerProposal ==
    pc = "done" =>
        /\ BagOfSeq(UpdatedParameters) = BagOfSeq(proposed)
        /\ BagOfSeq(updates) =
              BagOfSeq([i \in 1..Len(returned) |->
                          <<returned[i].parameters, returned[i].metric_score>>])

-----------------------------------------------------------------------------
(* Results and their configurations *)

\* C29: every result in the list execute returns carries the parameters of
\* the configuration whose trial produced its training_stats and eval_stats
\* (the trial was run on the model definition with those parameters
\* substituted), and its metric_score is eval_stats[output_feature][metric]
\* of the same result; FiberExecutor pairs the i-th statistics of a batch
\* with the i-th configuration of the batch.
C29_ResultsPaired ==
    pc = "done" =>
        \A i \in 1..Len(returned) :
            LET r == returned[i] IN
            /\ r.training_stats.trial = r.parameters
            /\ r.training_stats.model_definition =
                  substitute_parameters(ExecutorModelDefinition,
                                        r.parameters).ret
            /\ r.metric_score =
                  r.eval_stats[executor.output_feature][executor.metric]

\* FiberExecutor has returned two results of different configurations and
\* different scores
C29_Witness ==
    /\ pc = "done"
    /\ executor.type = "fiber"
    /\ Len(returned) = 2
    /\ returned[1].parameters # returned[2].parameters
    /\ returned[1].metric_score # returned[2].metric_score

-----------------------------------------------------------------------------
(* Names that address nothing *)

\* the names of a mapping whose first segment is neither the name of a
\* feature of the model definition nor combiner, training or preprocessing
Unaddressed(c, m) ==
    {n \in DOMAIN m :
        split(n)[1] \notin {"combiner", "training", "preprocessing"}
                            \cup Range(FeatureNamesOf(c))}

\* the mapping without the given names
Without(m, names) == [n \in DOMAIN m \ names |-> m[n]]

\* the names that address nothing make no difference: the call ends as it
\* does for the mapping without them, and a mapping of such names alone
\* leaves the model definition as it was and raises nothing
UnaddressedIgnored ==
    LET c    == call.model_definition
        m    == call.parameters
        rest == substitute_parameters(c, Without(m, Unaddressed(c, m)))
    IN /\ call.raised = rest.raised
       /\ ~call.raised => call.ret = rest.ret
       /\ Unaddressed(c, m) = DOMAIN m => (~call.raised /\ call.ret = c)

\* C31, as claimed: a mapping key whose first segment addresses nothing
\* leaves the whole model definition unchanged and raises no error in
\* substitute_parameters.
C31_UnaddressedIgnored ==
    (/\ call.op = "substitute_parameters"
     /\ call.done
     /\ Unaddressed(call.model_definition, call.parameters) # {}) =>
        UnaddressedIgnored

\* a key that addresses nothing comes after a key it extends, or before a
\* key that extends it
ExtendsEarlierKey(c, m, order) ==
    \E i, j \in 1..Len(order) :
        /\ i < j
        /\ Len(split(order[i])) < Len(split(order[j]))
        /\ SubSeq(split(order[j]), 1, Len(split(order[i]))) = split(order[i])
        /\ (order[i] \in Unaddressed(c, m) \/ order[j] \in Unaddressed(c, m))

\* C31, amended: the same, for the keys that neither come after a key of
\* the mapping they extend by further segments nor before a key that
\* extends them.
C31_UnaddressedIgnoredUnlessExtending ==
    (/\ call.op = "substitute_parameters"
     /\ call.done
     /\ Unaddressed(call.model_definition, call.parameters) # {}
     /\ ~ExtendsEarlierKey(call.model_definition, call.parameters,
                           call.order)) =>
        UnaddressedIgnored

\* a mapping with a key that addresses a feature and a key that addresses
\* nothing has changed the feature and nothing else
C31_Witness ==
    /\ call.op = "substitute_parameters"
    /\ call.done
    /\ ~call.raised
    /\ DOMAIN call.parameters = {"text.cell", "category.cell"}
    /\ call.model_definition.input_features = <<LabelFeature, TextFeature>>
    /\ call.ret.input_features[1] = LabelFeature
    /\ call.ret.input_features[2]["cell"] = Scalar(call.parameters["text.cell"])
    /\ call.ret.output_features = call.model_definition.output_features
    /\ call.ret.training = call.model_definition.training

=============================================================================
